---------------------------- MODULE Spec2Model ----------------------------
(***************************************************************************)
(* A model of the deck generator (quang/pttx_generator.py) and of the      *)
(* document analyzer (quang/lambda_function.py).                           *)
(*                                                                         *)
(* Python values are tagged records, so that values of different Python    *)
(* types can be compared:                                                  *)
(*   None  [t |-> "None"]            bool  [t |-> "bool", b |-> ...]       *)
(*   int   [t |-> "int", i |-> ...]  str   [t |-> "str", s |-> <<chars>>]  *)
(*   list  [t |-> "list", l |-> <<...>>]                                   *)
(*   dict  [t |-> "dict", d |-> function from keys to values]              *)
(* A string is the sequence of its characters.  An exception that leaves a *)
(* function is the value [raised |-> <exception name>].                    *)
(***************************************************************************)
EXTENDS Integers, Sequences, FiniteSets, TLC

VARIABLES
    pc,            \* position of the call under way
    obj,           \* compact: its argument
    compacted,     \* compact: its return value
    prs,           \* analyzer: the document, a sequence of slides of shapes
    slide_i,       \* analyzer: number of slides walked so far
    slides_out,    \* analyzer: file_results["slides"]
    analysis,      \* analyzer: return value of _analyze_presentation_stream
    data,          \* cleaning_JSON: json.loads(raw_text)
    normalized,    \* cleaning_JSON: its return value
    dateparser,    \* module global: TRUE when dateutil could be imported
    dateutil_guess,\* what dateutil makes of a text that is no ISO date
    now,           \* the clock: the value of datetime.now()
    x,             \* parse_time: its argument
    parsed,        \* parse_time: its return value, or the exception raised
    hex_color,     \* to_rgb: its argument
    rgb,           \* to_rgb: its return value, or the exception raised
    element,       \* render_chart_gantt: the chart element
    item_i,        \* render_chart_gantt: number of items walked so far
    slide_shapes,  \* render_chart_gantt: the shapes added to the slide
    gantt_exc,     \* render_chart_gantt: the exception that left it, or None
    spec,          \* build_ppt_from_spec: its argument
    slide_size,    \* build_ppt_from_spec: prs.slide_width and prs.slide_height
    slides_spec,   \* build_ppt_from_spec: the slides to build
    deck,          \* build_ppt_from_spec: prs.slides, each slide its shapes
    build_exc,     \* build_ppt_from_spec: the exception that left it, or None
    file_keys,     \* lambda_handler: body.get('fileKeys')
    store,         \* the object store: what each key holds
    s3_client,     \* module global: TRUE when the store client exists
    file_n,        \* lambda_handler: number of keys walked so far
    full_analysis, \* lambda_handler: the results by key, in insertion order
    processed_files, \* lambda_handler: the keys analysed
    failed_files,  \* lambda_handler: the keys that failed
    response,      \* lambda_handler: its return value
    first_out,     \* two calls on one input: what the first call gave
    second_out,    \* two calls on one input: what the second call gave
    legend_args,   \* _padded_chart_frame: its arguments
    frame          \* _padded_chart_frame: its return value

compactVars == <<obj, compacted>>
analyzeVars == <<prs, slide_i, slides_out, analysis>>
normalizeVars == <<data, normalized>>
envVars == <<dateparser, dateutil_guess, now>>
timeVars == <<x, parsed>>
rgbVars == <<hex_color, rgb>>
ganttVars == <<element, item_i, slide_shapes, gantt_exc>>
buildVars == <<spec, slide_size, slides_spec, deck, build_exc>>
handlerVars == <<file_keys, store, s3_client, file_n, full_analysis,
                 processed_files, failed_files, response>>
repeatVars == <<first_out, second_out>>
frameVars == <<legend_args, frame>>
moreVars == <<handlerVars, repeatVars, frameVars>>
others == <<envVars, timeVars, rgbVars>>
vars == <<pc, compactVars, analyzeVars, normalizeVars, others, ganttVars,
          buildVars, moreVars>>

-----------------------------------------------------------------------------
(* Python values *)

PyNone == [t |-> "None"]
PyBool(b) == [t |-> "bool", b |-> b]
PyInt(i) == [t |-> "int", i |-> i]
PyStr(s) == [t |-> "str", s |-> s]
PyList(l) == [t |-> "list", l |-> l]
PyDict(d) == [t |-> "dict", d |-> d]

EmptyDict == PyDict(<<>>)
EmptyList == PyList(<<>>)

\* A dict is given by the set of its items.
DictOfItems(items) ==
    PyDict([k \in {it[1] : it \in items} |->
               (CHOOSE it \in items : it[1] = k)[2]])

HasKey(node, k) == node.t = "dict" /\ k \in DOMAIN node.d

Raise(e) == [raised |-> e]
IsRaise(r) == "raised" \in DOMAIN r

\* The floats that are whole numbers, by their repr.
FloatToken(n) ==
    CASE n = 0 -> "0.0"
      [] n = 1 -> "1.0"
      [] n = 2 -> "2.0"

WholeFloats == {FloatToken(n) : n \in 0..2}

\* bool is a subclass of int: False == 0 and True == 1; a float compares
\* with them by value.
IsNumber(v) ==
    \/ v.t \in {"bool", "int"}
    \/ v.t = "float" /\ v.f \in WholeFloats

NumberOf(v) ==
    CASE v.t = "bool" -> IF v.b THEN 1 ELSE 0
      [] v.t = "int" -> v.i
      [] v.t = "float" -> CHOOSE n \in 0..2 : FloatToken(n) = v.f

\* a == b for b one of None, False, [], {} (the only right-hand sides the
\* analyzer compares with): numbers compare by value, whatever their type.
PyEq(a, b) ==
    IF IsNumber(a) /\ IsNumber(b) THEN NumberOf(a) = NumberOf(b)
    ELSE a.t = b.t /\ a = b

-----------------------------------------------------------------------------
(* quang/lambda_function.py: compact *)

\* cv in (None, False, [], {}): membership in a tuple is decided by ==.
InDropTuple(cv) ==
    \E e \in {PyNone, PyBool(FALSE), EmptyList, EmptyDict} : PyEq(cv, e)

\* compact that removes nothing.
compact_nothing(o) == o

\* compact that decides on the value as given and keeps it compacted.
RECURSIVE compact_deciding_on_given(_)
compact_deciding_on_given(o) ==
    IF o.t = "dict" THEN
        LET kept == {k \in DOMAIN o.d : ~InDropTuple(o.d[k])}
        IN  PyDict([k \in kept |-> compact_deciding_on_given(o.d[k])])
    ELSE IF o.t = "list" THEN
        LET keep(v) == ~InDropTuple(v)
            out == SelectSeq(o.l, keep)
        IN  PyList([n \in DOMAIN out |-> compact_deciding_on_given(out[n])])
    ELSE o

RECURSIVE compact(_)
compact(o) ==
    IF o.t = "dict" THEN
        LET kept == {k \in DOMAIN o.d : ~InDropTuple(compact(o.d[k]))}
        IN  PyDict([k \in kept |-> compact(o.d[k])])
    ELSE IF o.t = "list" THEN
        LET out == [n \in DOMAIN o.l |-> compact(o.l[n])]
            keep(v) == ~InDropTuple(v)
        IN  PyList(SelectSeq(out, keep))
    ELSE o

-----------------------------------------------------------------------------
(* Strings: str.strip and str.lower *)

UpperCase == <<"A", "B", "C", "D", "E", "F", "G", "H", "I", "J", "K", "L", "M",
               "N", "O", "P", "Q", "R", "S", "T", "U", "V", "W", "X", "Y", "Z">>
LowerCase == <<"a", "b", "c", "d", "e", "f", "g", "h", "i", "j", "k", "l", "m",
               "n", "o", "p", "q", "r", "s", "t", "u", "v", "w", "x", "y", "z">>

WhiteSpace == {" ", "\t", "\n"}

LowerChar(c) ==
    IF \E n \in DOMAIN UpperCase : UpperCase[n] = c
        THEN LowerCase[CHOOSE n \in DOMAIN UpperCase : UpperCase[n] = c]
        ELSE c

lower(s) == [n \in DOMAIN s |-> LowerChar(s[n])]

RECURSIVE lstrip(_)
lstrip(s) ==
    IF s # <<>> /\ Head(s) \in WhiteSpace THEN lstrip(Tail(s)) ELSE s

RECURSIVE rstrip(_)
rstrip(s) ==
    IF s # <<>> /\ s[Len(s)] \in WhiteSpace
        THEN rstrip(SubSeq(s, 1, Len(s) - 1))
        ELSE s

strip(s) == rstrip(lstrip(s))

-----------------------------------------------------------------------------
(* quang/pttx_generator.py: cleaning_JSON *)

\* The two string literals the lowered text is compared with.
TrueLiteral == <<"T", "r", "u", "e">>
FalseLiteral == <<"F", "a", "l", "s", "e">>

\* normalize with the test of the dict branch written `if v is None`.
RECURSIVE normalize_dropping_every_null(_)
normalize_dropping_every_null(o) ==
    IF o.t = "str" THEN
        LET low == lower(strip(o.s))
        IN  IF low = TrueLiteral THEN PyBool(TRUE)
            ELSE IF low = FalseLiteral THEN PyBool(FALSE)
            ELSE o
    ELSE IF o.t = "dict" THEN
        LET kept == {k \in DOMAIN o.d : o.d[k] # PyNone}
        IN  PyDict([k \in kept |-> normalize_dropping_every_null(o.d[k])])
    ELSE IF o.t = "list" THEN
        PyList([n \in DOMAIN o.l |-> normalize_dropping_every_null(o.l[n])])
    ELSE o

RECURSIVE normalize(_)
normalize(o) ==
    IF o.t = "str" THEN
        LET low == lower(strip(o.s))
        IN  IF low = TrueLiteral THEN PyBool(TRUE)
            ELSE IF low = FalseLiteral THEN PyBool(FALSE)
            ELSE o
    ELSE IF o.t = "dict" THEN
        LET kept == {k \in DOMAIN o.d : ~(k = "layout" /\ o.d[k] = PyNone)}
        IN  PyDict([k \in kept |-> normalize(o.d[k])])
    ELSE IF o.t = "list" THEN
        PyList([n \in DOMAIN o.l |-> normalize(o.l[n])])
    ELSE o

-----------------------------------------------------------------------------
(* datetime: a day (its proleptic Gregorian ordinal, as date.toordinal) and *)
(* the second of that day                                                  *)

DateTime(ord, tod) == [t |-> "datetime", ord |-> ord, tod |-> tod]

PyFloat(f) == [t |-> "float", f |-> f]

MINYEAR == 1

IsLeap(y) == y % 4 = 0 /\ (y % 100 # 0 \/ y % 400 = 0)

DaysBeforeMonth == <<0, 31, 59, 90, 120, 151, 181, 212, 243, 273, 304, 334>>
DaysInMonth(y, m) ==
    IF m = 2 THEN (IF IsLeap(y) THEN 29 ELSE 28)
    ELSE IF m \in {4, 6, 9, 11} THEN 30 ELSE 31

toordinal(y, m, d) ==
    (y - 1) * 365 + ((y - 1) \div 4) - ((y - 1) \div 100) + ((y - 1) \div 400)
        + DaysBeforeMonth[m] + (IF m > 2 /\ IsLeap(y) THEN 1 ELSE 0) + d

\* datetime(year, month, day)
datetime(y, m, d) ==
    IF y < MINYEAR \/ m \notin 1..12 \/ d \notin 1..DaysInMonth(y, m)
        THEN Raise("ValueError")
        ELSE DateTime(toordinal(y, m, d), 0)

\* datetime.fromtimestamp(x), in a zone without offset: a number counts the
\* seconds since 1970-01-01; an infinite, NaN or too large float is refused.
fromtimestamp(v) ==
    IF v.t = "float" THEN
        (IF v.f = "nan" THEN Raise("ValueError") ELSE Raise("OverflowError"))
    ELSE DateTime(toordinal(1970, 1, 1) + (NumberOf(v) \div 86400),
                  NumberOf(v) % 86400)

\* (a - b).days: timedelta normalizes to 0 <= seconds < 86400.
days_between(a, b) == (a.ord - b.ord) - (IF a.tod < b.tod THEN 1 ELSE 0)

Digits == <<"0", "1", "2", "3", "4", "5", "6", "7", "8", "9">>
IsDigit(c) == \E n \in DOMAIN Digits : Digits[n] = c
DigitVal(c) == (CHOOSE n \in DOMAIN Digits : Digits[n] = c) - 1

\* int() of a text of decimal digits
RECURSIVE int(_)
int(s) ==
    IF s = <<>> THEN 0
    ELSE 10 * int(SubSeq(s, 1, Len(s) - 1)) + DigitVal(s[Len(s)])

AllDigits(s) == \A n \in DOMAIN s : IsDigit(s[n])

\* A text "YYYY-MM-DD" naming a day of the calendar.
IsIsoDate(s) ==
    /\ Len(s) = 10
    /\ s[5] = "-" /\ s[8] = "-"
    /\ AllDigits(SubSeq(s, 1, 4) \o SubSeq(s, 6, 7) \o SubSeq(s, 9, 10))
    /\ ~IsRaise(datetime(int(SubSeq(s, 1, 4)), int(SubSeq(s, 6, 7)),
                         int(SubSeq(s, 9, 10))))

IsoDate(s) ==
    datetime(int(SubSeq(s, 1, 4)), int(SubSeq(s, 6, 7)), int(SubSeq(s, 9, 10)))

\* datetime.fromisoformat(s)
fromisoformat(s) == IF IsIsoDate(s) THEN IsoDate(s) ELSE Raise("ValueError")

\* dateutil's parser.parse(s): an ISO date is read as that day; what the
\* tolerant parser makes of any other text (a ParserError or some day) is
\* not decided by this repository.
dateparser_parse(s) == IF IsIsoDate(s) THEN IsoDate(s) ELSE dateutil_guess

-----------------------------------------------------------------------------
(* quang/pttx_generator.py: parse_time *)

\* _Q_RE = ^(\d{4})\s+Q([1-4])$ with re.I, matched on the stripped text.
_Q_RE_match(s) ==
    /\ Len(s) >= 7
    /\ AllDigits(SubSeq(s, 1, 4))
    /\ \A n \in 5..(Len(s) - 2) : s[n] \in WhiteSpace
    /\ s[Len(s) - 1] \in {"Q", "q"}
    /\ s[Len(s)] \in {"1", "2", "3", "4"}

\* str(x) of a value that is no number, datetime, None or str.
str(v) == IF v.t = "list" /\ v.l = <<>> THEN <<"[", "]">> ELSE <<"{", "}">>

\* parse_time_of_text resolving the quarter strings only: every other text
\* falls back to the current time.
parse_time_of_quarters_only(s) ==
    IF _Q_RE_match(s) THEN
        datetime(int(SubSeq(s, 1, 4)), (int(<<s[Len(s)]>>) - 1) * 3 + 1, 1)
    ELSE now

parse_time_of_text(s) ==
    IF _Q_RE_match(s) THEN
        LET year == int(SubSeq(s, 1, 4))
            q == int(<<s[Len(s)]>>)
            month == (q - 1) * 3 + 1
        IN  datetime(year, month, 1)
    ELSE IF dateparser /\ ~IsRaise(dateparser_parse(s)) THEN
        dateparser_parse(s)
    ELSE IF ~IsRaise(fromisoformat(s)) THEN fromisoformat(s)
    ELSE now

parse_time(v) ==
    IF v.t \in {"int", "float", "bool"} THEN fromtimestamp(v)
    ELSE IF v.t = "datetime" THEN v
    ELSE IF v.t = "None" THEN now
    ELSE IF v.t = "str" THEN parse_time_of_text(strip(v.s))
    ELSE IF dateparser THEN
        (IF IsRaise(dateparser_parse(str(v))) THEN now
         ELSE dateparser_parse(str(v)))
    ELSE IF ~IsRaise(fromisoformat(str(v))) THEN fromisoformat(str(v))
    ELSE now

-----------------------------------------------------------------------------
(* quang/pttx_generator.py: to_rgb *)

HexDigits == <<"0", "1", "2", "3", "4", "5", "6", "7", "8", "9",
               "a", "b", "c", "d", "e", "f", "A", "B", "C", "D", "E", "F">>
IsHex(c) == \E n \in DOMAIN HexDigits : HexDigits[n] = c
HexVal(c) ==
    LET n == CHOOSE k \in DOMAIN HexDigits : HexDigits[k] = c
    IN  IF n > 16 THEN n - 7 ELSE n - 1

\* int(text, 16) of a text of two characters: two hexadecimal digits, or one
\* digit after a sign or beside white space; anything else is a ValueError.
int16(pair) ==
    IF IsHex(pair[1]) /\ IsHex(pair[2]) THEN 16 * HexVal(pair[1]) + HexVal(pair[2])
    ELSE IF pair[1] \in WhiteSpace \cup {"+"} /\ IsHex(pair[2]) THEN HexVal(pair[2])
    ELSE IF pair[1] = "-" /\ IsHex(pair[2]) THEN 0 - HexVal(pair[2])
    ELSE IF IsHex(pair[1]) /\ pair[2] \in WhiteSpace THEN HexVal(pair[1])
    ELSE -1000

\* RGBColor(r, g, b): each component must be an int in 0..255.
RGBColor(r, g, b) ==
    IF \A c \in {r, g, b} : c \in 0..255 THEN [r |-> r, g |-> g, b |-> b]
    ELSE Raise("ValueError")

RECURSIVE lstrip_hash(_)
lstrip_hash(s) ==
    IF s # <<>> /\ Head(s) = "#" THEN lstrip_hash(Tail(s)) ELSE s

DefaultDark == <<"1", "B", "1", "B", "1", "B">>

\* hex_color is a str or None.
to_rgb(color) ==
    LET s0 == lstrip_hash(IF color.t = "None" THEN <<>> ELSE color.s)
        s1 == IF Len(s0) = 3
                  THEN <<s0[1], s0[1], s0[2], s0[2], s0[3], s0[3]>>
                  ELSE s0
        s2 == IF Len(s1) # 6 THEN DefaultDark ELSE s1
    IN  RGBColor(int16(SubSeq(s2, 1, 2)), int16(SubSeq(s2, 3, 4)),
                 int16(SubSeq(s2, 5, 6)))

-----------------------------------------------------------------------------
(* quang/pttx_generator.py: render_chart_gantt                             *)
(*                                                                         *)
(* A number of inches is carried in hundredths of an inch.  Lengths are    *)
(* whole units, UnitsPerInch to the inch, as python-pptx keeps whole EMU.  *)
(* The code computes positions in floating point; here they are exact      *)
(* fractions: a horizontal position or width is carried multiplied by      *)
(* total_days, a vertical one multiplied by 200 * lane_count (height       *)
(* fractions are hundredths, and centring halves).                         *)

UnitsPerInch == 100

Inches(hundredths) == (hundredths * UnitsPerInch) \div 100

\* dict.get(key, default)
Get(dict, key, default) ==
    IF key \in DOMAIN dict.d THEN dict.d[key] ELSE default

\* bool(value) of a JSON value
Truthy(v) ==
    CASE v.t = "None" -> FALSE
      [] v.t = "bool" -> v.b
      [] v.t = "int" -> v.i # 0
      [] v.t = "str" -> v.s # <<>>
      [] v.t = "list" -> v.l # <<>>
      [] v.t = "dict" -> DOMAIN v.d # {}
      [] OTHER -> TRUE

\* max without the comparison: its first argument.
first_of(a, b) == a

Max(a, b) == IF a >= b THEN a ELSE b

DefaultPosition == [x |-> 100, y |-> 120, w |-> 1130, h |-> 500]

\* The frame, the content area, the lanes and the time range: everything
\* computed before the first shape is added.  Raises what parse_time raises.
gantt_layout(el) ==
    LET pos == IF "position" \in DOMAIN el.d THEN el.d["position"]
               ELSE DefaultPosition
        gutter == Get(el, "gutterInches", PyInt(100)).i
        w == Inches(pos.w)
        content_w == IF w - Inches(gutter) < Inches(100) THEN Inches(100)
                     ELSE w - Inches(gutter)
        units == IF Truthy(Get(el, "units", EmptyDict))
                     THEN el.d["units"] ELSE EmptyDict
        lanes == LET l == Get(Get(units, "yRange", EmptyDict), "lanes", EmptyList)
                 IN  IF Truthy(l) THEN l.l ELSE <<>>
        x_range == IF Truthy(Get(units, "xRange", EmptyDict))
                       THEN units.d["xRange"] ELSE EmptyDict
        t0 == parse_time(Get(x_range, "t0", PyNone))
        t1 == parse_time(Get(x_range, "t1", PyNone))
    IN  IF IsRaise(t0) THEN t0
        ELSE IF IsRaise(t1) THEN t1
        ELSE [x |-> Inches(pos.x), y |-> Inches(pos.y), w |-> w,
              h |-> Inches(pos.h), gutter |-> Inches(gutter),
              content_x |-> Inches(pos.x) + Inches(gutter),
              content_w |-> content_w,
              lanes |-> lanes,
              lane_count |-> Max(Len(lanes), 1),
              t0 |-> t0,
              total_days |-> Max(days_between(t1, t0), 1)]

\* x_pos measured from the left edge of the frame instead of the content area.
x_pos_from_frame(lay, dt_str) ==
    lay.x * lay.total_days
        + lay.content_w * days_between(parse_time(dt_str), lay.t0)

\* x_pos(dt_str), multiplied by total_days, for a dt_str that parse_time
\* resolves; it raises what parse_time raises.
x_pos(lay, dt_str) ==
    lay.content_x * lay.total_days
        + lay.content_w * days_between(parse_time(dt_str), lay.t0)

\* y_pos giving the top of the lane below.
y_pos_of_next_lane(lay, lane_index) ==
    200 * lay.lane_count * lay.y + 200 * lay.h * (lane_index + 1)

\* y_pos(lane_index), multiplied by 200 * lane_count.
y_pos(lay, lane_index) ==
    200 * lay.lane_count * lay.y + 200 * lay.h * lane_index

Shape(kind) == [kind |-> kind]

\* The lane backgrounds (every other lane, from lane 0) and the lane labels.
RECURSIVE lane_shapes(_, _)
lane_shapes(lay, i) ==
    IF i >= lay.lane_count THEN <<>>
    ELSE (IF i % 2 = 0 THEN <<Shape("lane_background")>> ELSE <<>>)
             \o <<Shape("lane_label")>> \o lane_shapes(lay, i + 1)

Repeat(shape, n) == [k \in 1..n |-> shape]

\* The guides, the top axis line and the labels of the grid.
grid_shapes(el) ==
    LET grid == IF Truthy(Get(el, "grid", PyNone)) THEN el.d["grid"]
                ELSE EmptyDict
        quarters == Get(grid, "quarters", EmptyList)
        n_q == IF Truthy(quarters) THEN Len(quarters.l) ELSE 0
        show_labels == Truthy(Get(grid, "showLabels", PyBool(TRUE)))
        draw_axis_line == Truthy(Get(grid, "topAxisLine", PyBool(TRUE)))
        axis == IF draw_axis_line THEN <<Shape("axis_line")>> ELSE <<>>
    IN  IF n_q >= 2
            THEN Repeat(Shape("guide"), n_q) \o axis
                     \o (IF show_labels THEN Repeat(Shape("grid_label"), n_q - 1)
                         ELSE <<>>)
            ELSE axis

\* int(value) of a JSON value: the lane index.
int_of(v) ==
    CASE v.t = "int" -> v
      [] v.t = "bool" -> PyInt(NumberOf(v))
      [] v.t = "str" ->
            IF v.s # <<>> /\ AllDigits(v.s) THEN PyInt(int(v.s))
            ELSE Raise("ValueError")
      [] OTHER -> Raise("TypeError")

DefaultFill == <<"#", "9", "0", "C", "A", "F", "9">>
DefaultTextColor == <<"#", "1", "B", "1", "B", "1", "B">>

\* bar_span without the exchange of the two ends.
bar_span_unswapped(left, right) == [left |-> left, width |-> right - left]

\* The horizontal span of a bar: left edge and width, the two ends
\* exchanged when the right one lies before the left one.
bar_span(left, right) ==
    IF right < left THEN [left |-> right, width |-> left - right]
    ELSE [left |-> left, width |-> right - left]

\* One iteration of the loop over the items: the shape added, if any, and
\* the exception that ends the rendering, if any.  n is the position of the
\* item in the list; it is kept with the shape to tell the bars apart.
draw_item(lay, it, n) ==
    LET Nothing(exc) == [added |-> <<>>, exc |-> exc]
        start == Get(it, "start", EmptyDict)
        end == Get(it, "end", EmptyDict)
    IN  IF start.t # "dict" \/ end.t # "dict" THEN Nothing(Raise("AttributeError"))
        ELSE
        LET start_x == Get(start, "x", PyNone)
            end_x == Get(end, "x", PyNone)
        IN  IF ~Truthy(start_x) \/ ~Truthy(end_x) THEN Nothing(PyNone)
            ELSE
            IF IsRaise(parse_time(start_x)) THEN Nothing(parse_time(start_x))
            ELSE IF IsRaise(parse_time(end_x)) THEN Nothing(parse_time(end_x))
            ELSE
                LET span == bar_span(x_pos(lay, start_x), x_pos(lay, end_x))
                    lane_idx == int_of(Get(start, "y", PyInt(0)))
                    size == Get(it, "size", EmptyDict)
                IN  IF IsRaise(lane_idx) THEN Nothing(lane_idx)
                    ELSE IF size.t # "dict" THEN Nothing(Raise("AttributeError"))
                    ELSE
                    LET fraction == Get(size, "height", PyInt(60)).i
                        style == IF Truthy(Get(it, "style", EmptyDict))
                                     THEN it.d["style"] ELSE EmptyDict
                        fill == to_rgb(Get(style, "fill", PyStr(DefaultFill)))
                        text == to_rgb(Get(style, "text", PyStr(DefaultTextColor)))
                        chevron == [kind |-> "chevron", item |-> n,
                                    left |-> span.left, width |-> span.width,
                                    top |-> y_pos(lay, lane_idx.i)
                                              + lay.h * (100 - fraction),
                                    height |-> 2 * lay.h * fraction]
                    IN  [added |-> <<chevron>>,
                         exc |-> IF IsRaise(fill) THEN fill
                                 ELSE IF IsRaise(text) THEN text
                                 ELSE PyNone]

\* What a sequence of steps leaves when each step adds shapes and may raise:
\* the shapes up to and including the first step that raises, and what it
\* raised.
RECURSIVE shapes_until(_, _)
shapes_until(steps, last) ==
    IF last = 0 THEN <<>>
    ELSE shapes_until(steps, last - 1) \o steps[last].added

in_order(steps) ==
    LET bad == {n \in DOMAIN steps : IsRaise(steps[n].exc)}
        last == IF bad = {} THEN Len(steps)
                ELSE CHOOSE n \in bad : \A m \in bad : n <= m
    IN  [added |-> shapes_until(steps, last),
         exc |-> IF bad = {} THEN PyNone ELSE steps[last].exc]

\* One call of render_chart_gantt: the shapes it adds to the slide and the
\* exception that leaves it, if any.
render_chart_gantt(el) ==
    LET lay == gantt_layout(el)
        items == Get(el, "items", EmptyList).l
    IN  IF IsRaise(lay) THEN [added |-> <<>>, exc |-> lay]
        ELSE in_order(<<[added |-> lane_shapes(lay, 0) \o grid_shapes(el),
                         exc |-> PyNone]>>
                      \o [n \in DOMAIN items |-> draw_item(lay, items[n], n)])

-----------------------------------------------------------------------------
(* quang/pttx_generator.py: the deck builder                               *)

StrText == <<"t", "e", "x", "t">>
StrTable == <<"t", "a", "b", "l", "e">>
StrChart == <<"c", "h", "a", "r", "t">>
StrGantt == <<"g", "a", "n", "t", "t">>
StrPie == <<"p", "i", "e">>
StrBar == <<"b", "a", "r">>
StrLine == <<"l", "i", "n", "e">>
StrHeading == <<"h", "e", "a", "d", "i", "n", "g">>
StrParagraph == <<"p", "a", "r", "a", "g", "r", "a", "p", "h">>
StrBullets == <<"b", "u", "l", "l", "e", "t", "s">>
StrRich == <<"r", "i", "c", "h">>
StrCover == <<"c", "o", "v", "e", "r">>
Slate900 == <<"#", "1", "1", "1", "8", "2", "7">>

WIDESCREEN_16x9 == TRUE

\* value or {} / value or []
OrElse(v, default) == IF Truthy(v) THEN v ELSE default

\* apply_text_style: the one call in it that can raise is to_rgb.
apply_text_style(style) ==
    LET colour == to_rgb(Get(OrElse(style, EmptyDict), "text",
                             PyStr(DefaultTextColor)))
    IN  IF IsRaise(colour) THEN colour ELSE PyNone

\* The text box is added before the variant is looked at.
render_textbox(el) ==
    LET variant == Get(el, "variant", PyStr(StrParagraph))
        style == OrElse(Get(el, "style", EmptyDict), EmptyDict)
        items == OrElse(Get(el, "items", EmptyList), EmptyList).l
        runs == OrElse(Get(el, "runs", EmptyList), EmptyList).l
        bullet(item) ==
            IF IsRaise(int_of(Get(item, "level", PyInt(0))))
                THEN int_of(Get(item, "level", PyInt(0)))
                ELSE apply_text_style(style)
        run(r) ==
            LET colour == to_rgb(Get(r, "color",
                              Get(style, "text", PyStr(DefaultTextColor))))
            IN  IF IsRaise(colour) THEN colour ELSE PyNone
        box == [added |-> <<Shape("textbox")>>, exc |-> PyNone]
        Following(excs) ==
            in_order(<<box>> \o [n \in DOMAIN excs |->
                                    [added |-> <<>>, exc |-> excs[n]]])
    IN  CASE variant \in {PyStr(StrHeading), PyStr(StrParagraph)} ->
                Following(<<apply_text_style(style)>>)
          [] variant = PyStr(StrBullets) ->
                Following([n \in DOMAIN items |-> bullet(items[n])])
          [] variant = PyStr(StrRich) ->
                Following([n \in DOMAIN runs |-> run(runs[n])]
                          \o <<apply_text_style(style)>>)
          [] OTHER -> box

\* The table and the native charts each add one graphic frame.
render_table(el) == [added |-> <<Shape("table")>>, exc |-> PyNone]

render_chart_native(el) == [added |-> <<Shape("chart")>>, exc |-> PyNone]

render_element(el) ==
    LET etype == Get(el, "type", PyNone)
        subtype == Get(el, "subtype", PyNone)
    IN  CASE etype = PyStr(StrText) -> render_textbox(el)
          [] etype = PyStr(StrTable) -> render_table(el)
          [] etype = PyStr(StrChart) /\ subtype = PyStr(StrGantt) ->
                render_chart_gantt(el)
          [] etype = PyStr(StrChart)
               /\ subtype \in {PyStr(StrPie), PyStr(StrBar), PyStr(StrLine)} ->
                render_chart_native(el)
          [] OTHER -> [added |-> <<>>, exc |-> PyNone]

\* add_title_if_any without its early return.
add_title_always(title_text) == <<Shape("title")>>

add_title_if_any(title_text) ==
    IF Truthy(title_text) THEN <<Shape("title")>> ELSE <<>>

IsTextOf(el, variants) ==
    /\ Get(el, "type", PyNone) = PyStr(StrText)
    /\ Get(el, "variant", PyNone) \in variants

\* The cover slide: the band, the title (of the first heading, which may be
\* missing), the subtitle when there is one, the footer when meta is given.
render_cover_slide(s) ==
    LET accent == to_rgb(Get(s, "accentColor", PyStr(Slate900)))
        elements == Get(s, "elements", EmptyList)
        subtitles == SelectSeq(elements.l,
                         LAMBDA el : IsTextOf(el, {PyStr(StrParagraph),
                                                   PyStr(StrRich)}))
        meta == Get(s, "meta", EmptyDict)
        band == [added |-> <<Shape("band")>>,
                 exc |-> IF IsRaise(accent) THEN accent
                         ELSE IF elements.t # "list" THEN Raise("TypeError")
                         ELSE PyNone]
        texts == [added |-> <<Shape("cover_title")>>
                              \o (IF subtitles # <<>> /\ Truthy(subtitles[1])
                                      THEN <<Shape("cover_subtitle")>>
                                      ELSE <<>>),
                  exc |-> PyNone]
        footer == IF ~Truthy(meta) THEN [added |-> <<>>, exc |-> PyNone]
                  ELSE [added |-> <<Shape("cover_footer")>>,
                        exc |-> IF meta.t # "dict" THEN Raise("AttributeError")
                                ELSE PyNone]
    IN  IF IsRaise(band.exc) THEN band
        ELSE in_order(<<band, texts, footer>>)

\* One iteration of the loop over slides_spec: the slides added to the deck
\* (none when the slide is no mapping) and the exception raised, if any.
build_slide(s) ==
    IF s.t # "dict" THEN [slides |-> <<>>, exc |-> Raise("AttributeError")]
    ELSE IF Get(s, "layout", PyNone) = PyStr(StrCover)
        THEN LET cover == render_cover_slide(s)
             IN  [slides |-> <<cover.added>>, exc |-> cover.exc]
    ELSE
        LET listed == OrElse(Get(s, "elements", PyNone), EmptyList).l
            has_heading == \E n \in DOMAIN listed :
                               IsTextOf(listed[n], {PyStr(StrHeading)})
            title == [added |-> IF has_heading THEN <<>>
                                ELSE add_title_if_any(Get(s, "title", PyNone)),
                      exc |-> PyNone]
            elements == Get(s, "elements", EmptyList)
            drawn == IF elements.t # "list"
                         THEN [added |-> title.added, exc |-> Raise("TypeError")]
                         ELSE in_order(<<title>>
                                  \o [n \in DOMAIN elements.l |->
                                         render_element(elements.l[n])])
        IN  [slides |-> <<drawn.added>>, exc |-> drawn.exc]

\* int(el.get("slide", 1))
slide_number(el) ==
    IF el.t # "dict" THEN Raise("AttributeError")
    ELSE int_of(Get(el, "slide", PyInt(1)))

\* The keys in descending order.
sorted_descending(keys) ==
    CHOOSE order \in [1..Cardinality(keys) -> keys] :
        \A i, j \in DOMAIN order : i < j => order[i] > order[j]

\* sorted(slides): the keys in ascending order.
sorted(keys) ==
    CHOOSE order \in [1..Cardinality(keys) -> keys] :
        \A i, j \in DOMAIN order : i < j => order[i] < order[j]

\* The grouping that gives a list without elements one empty slide.
group_with_a_blank_slide(elements) ==
    PyList(<<PyDict([title |-> PyNone, elements |-> EmptyList])>>)

\* The bucket of a slide, last element first.
bucket_reversed(els, i) ==
    LET kept == SelectSeq(els, LAMBDA el : slide_number(el).i = i)
    IN  [n \in DOMAIN kept |-> kept[Len(kept) + 1 - n]]

\* slides[i] after the loop: the elements of slide i, in list order.
bucket_of(els, i) == SelectSeq(els, LAMBDA el : slide_number(el).i = i)

group_elements_by_slide_flat(elements) ==
    LET els == OrElse(elements, EmptyList).l
        bad == {n \in DOMAIN els : IsRaise(slide_number(els[n]))}
        keys == {slide_number(els[n]).i : n \in DOMAIN els}
        order == sorted(keys)
        bucket(i) == bucket_of(els, i)
    IN  IF bad # {}
            THEN slide_number(els[CHOOSE n \in bad : \A m \in bad : n <= m])
            ELSE PyList([k \in DOMAIN order |->
                     PyDict([title |-> PyNone,
                             elements |-> PyList(bucket(order[k]))])])

\* prs.slide_width, prs.slide_height in thousandths of an inch, or the
\* exception of the lookup of the size.
slide_size_of(sp) ==
    LET slide == OrElse(Get(sp, "slide", PyNone), EmptyDict)
    IN  IF slide.t # "dict" THEN Raise("AttributeError")
        ELSE IF WIDESCREEN_16x9
                  \/ Get(slide, "size", PyStr(<<"1", "6", ":", "9">>))
                         = PyStr(<<"1", "6", ":", "9">>)
            THEN [width |-> 13333, height |-> 7500]
            ELSE [width |-> 10000, height |-> 7500]

\* The slide model: spec["slides"], or the flat elements grouped by slide
\* with the metadata title on the first slide.
slides_spec_of(sp) ==
    IF Truthy(Get(sp, "slides", PyNone)) THEN sp.d["slides"]
    ELSE
        LET grouped == group_elements_by_slide_flat(Get(sp, "elements", EmptyList))
            metadata == OrElse(Get(sp, "metadata", PyNone), EmptyDict)
            title == IF metadata.t = "dict" THEN Get(metadata, "title", PyNone)
                     ELSE PyNone
        IN  IF IsRaise(grouped) THEN grouped
            ELSE IF grouped.l # <<>> /\ metadata.t # "dict"
                THEN Raise("AttributeError")
            ELSE IF grouped.l # <<>> /\ Truthy(title)
                THEN PyList([k \in DOMAIN grouped.l |->
                        IF k = 1
                            THEN PyDict([grouped.l[1].d EXCEPT !["title"] = title])
                            ELSE grouped.l[k]])
            ELSE grouped

-----------------------------------------------------------------------------
(* Input trees of compact *)

MaxLen == 2

Leaves ==
    {PyNone, PyBool(FALSE), PyBool(TRUE), PyInt(0), PyInt(1),
     PyStr(<<>>), PyStr(<<"a">>)}

Containers(S) ==
    {EmptyList, EmptyDict}
        \cup {PyList(<<s>>) : s \in S}
        \cup {PyDict("k" :> s) : s \in S}

Level1 == Leaves \cup Containers(Leaves)
Level2 == Level1 \cup Containers(Level1)

SeqsUpTo(S, n) == UNION {[1..m -> S] : m \in 0..n}
DictsOver(K, S) == UNION {[D -> S] : D \in SUBSET K}

Trees ==
    Level2
        \cup {PyList(l) : l \in SeqsUpTo(Level2, MaxLen)}
        \cup {PyDict(d) : d \in DictsOver({"a", "b"}, Level2)}

-----------------------------------------------------------------------------
(* quang/lambda_function.py: text shapes *)

Hello == <<"H", "e", "l", "l", "o">>

\* The role of a text shape.  runs holds the font size in points of each run
\* of the first paragraph, 0 for a run whose size is not set and -1 for a
\* run whose font cannot be read.  The loop returns at the first run of at
\* least 20pt and otherwise goes on to the next run; a failed lookup leaves
\* the try block.
RECURSIVE font_size_role(_)
font_size_role(runs) ==
    IF runs = <<>> THEN "body"
    ELSE IF Head(runs) < 0 THEN "body"
    ELSE IF Head(runs) >= 28 THEN "title"
    ELSE IF Head(runs) >= 20 THEN "heading"
    ELSE font_size_role(Tail(runs))

\* A ph_type that cannot be read is none of the types looked for.
_shape_role_for_text(shape) ==
    IF shape.is_placeholder /\ shape.ph_type \in {"TITLE", "CENTER_TITLE"}
        THEN "title"
    ELSE IF shape.is_placeholder /\ shape.ph_type = "SUBTITLE"
        THEN "subtitle"
    ELSE font_size_role(shape.runs)

StrOf(token) == PyStr(<<token>>)

\* paragraph.level or 0: level is an int, so the result is the level.
_paragraph_dict(paragraph) ==
    LET d == [k \in {"level", "text"} |->
                 IF k = "level" THEN PyInt(paragraph.level)
                 ELSE PyStr(paragraph.text)]
        a == IF paragraph.alignment # "None"
                 THEN ("alignment" :> StrOf(paragraph.alignment))
                 ELSE <<>>
    IN  compact(PyDict(a @@ d))

extract_text_shape(shape) ==
    LET paragraphs == [n \in DOMAIN shape.paragraphs |->
                          _paragraph_dict(shape.paragraphs[n])]
    IN  compact(PyDict([k \in {"kind", "role", "paragraphs"} |->
            CASE k = "kind" -> StrOf("text")
              [] k = "role" -> StrOf(_shape_role_for_text(shape))
              [] OTHER -> PyList(paragraphs)]))

\* content_type is "None" when shape.image cannot be read.
extract_picture_shape(shape) ==
    compact(PyDict([k \in {"kind", "content_type"} |->
        IF k = "kind" THEN StrOf("image")
        ELSE IF shape.content_type = "None" THEN PyNone
        ELSE StrOf(shape.content_type)]))

\* float(val): a float is itself, a bool or an int its value, anything else
\* is not coerced.
float_of(v) ==
    IF v.t = "float" THEN v
    ELSE IF IsNumber(v) THEN PyFloat(FloatToken(NumberOf(v)))
    ELSE Raise(IF v.t = "str" THEN "ValueError" ELSE "TypeError")

\* One point of a series: the label of the category (str(cat_obj) is the
\* label too) and the value, coerced when it can be.
chart_point(cat, val) ==
    LET value == IF val.t = "None" THEN PyNone
                 ELSE IF IsRaise(float_of(val)) THEN val
                 ELSE float_of(val)
    IN  compact(DictOfItems({<<"category", cat>>, <<"value", value>>}))

Min(a, b) == IF a <= b THEN a ELSE b

chart_series(s) ==
    LET n == IF s.categories.t = "None" \/ s.values.t = "None" THEN 0
             ELSE Min(Len(s.categories.l), Len(s.values.l))
        pts == [i \in 1..n |-> chart_point(s.categories.l[i], s.values.l[i])]
    IN  compact(DictOfItems({<<"name", s.name>>, <<"points", PyList(pts)>>}))

\* A series marked failing raises while it is read: the series then fall
\* back to their names.  excel is the grid of the embedded workbook, None
\* when it cannot be loaded.
extract_chart_data(chart) ==
    LET failed == \E n \in DOMAIN chart.series : chart.series[n].failing
        series == [n \in DOMAIN chart.series |->
                      IF failed
                          THEN compact(DictOfItems({<<"name", chart.series[n].name>>}))
                          ELSE chart_series(chart.series[n])]
    IN  compact(DictOfItems({<<"kind", StrOf("chart")>>,
                             <<"title", chart.title>>,
                             <<"chart_type", StrOf(chart.chart_type)>>,
                             <<"series", PyList(series)>>,
                             <<"excel_data", chart.excel>>}))

\* One cell of the grid: its row, its column, its text, and the merge flags
\* that are true.
table_cell(r_idx, c_idx, cell) ==
    DictOfItems({<<"r", PyInt(r_idx)>>, <<"c", PyInt(c_idx)>>,
                 <<"text", cell.text>>}
                \cup (IF cell.is_merge_origin
                          THEN {<<"merge_origin", PyBool(TRUE)>>} ELSE {})
                \cup (IF cell.is_spanned
                          THEN {<<"is_spanned", PyBool(TRUE)>>} ELSE {}))

_table_dict(table) ==
    LET rows == [r \in DOMAIN table.rows |->
                    PyList([c \in DOMAIN table.rows[r] |->
                               table_cell(r - 1, c - 1, table.rows[r][c])])]
    IN  compact(DictOfItems({<<"rows", PyInt(Len(table.rows))>>,
                             <<"cols", PyInt(table.columns)>>,
                             <<"cells", PyList(rows)>>}))

extract_table_shape(shape) ==
    compact(DictOfItems({<<"kind", StrOf("table")>>,
                         <<"structure", _table_dict(shape.table)>>}))

\* A graphic frame whose chart part cannot be read: shape.chart raises, and
\* the except clause of the loop goes on to the next shape.
Unreadable(shape) == shape.shape_type = "CHART" /\ IsRaise(shape.chart)

\* extract_child with the branch of the groups: a nested group gives a node.
extract_child_with_groups(shape) ==
    IF shape.shape_type = "GROUP"
        THEN <<DictOfItems({<<"kind", StrOf("group")>>})>>
    ELSE IF shape.shape_type = "CHART" THEN
        (IF Unreadable(shape) THEN <<>> ELSE <<extract_chart_data(shape.chart)>>)
    ELSE IF shape.shape_type = "TABLE" THEN <<extract_table_shape(shape)>>
    ELSE IF shape.shape_type = "PICTURE" THEN <<extract_picture_shape(shape)>>
    ELSE IF shape.has_text_frame THEN <<extract_text_shape(shape)>>
    ELSE <<>>

\* The nodes the child of a group adds to the children of the group: the
\* same chain without the branch of the groups.
extract_child(shape) ==
    IF shape.shape_type = "CHART" THEN
        (IF Unreadable(shape) THEN <<>> ELSE <<extract_chart_data(shape.chart)>>)
    ELSE IF shape.shape_type = "TABLE" THEN <<extract_table_shape(shape)>>
    ELSE IF shape.shape_type = "PICTURE" THEN <<extract_picture_shape(shape)>>
    ELSE IF shape.has_text_frame THEN <<extract_text_shape(shape)>>
    ELSE <<>>

RECURSIVE extract_children(_)
extract_children(shapes) ==
    IF shapes = <<>> THEN <<>>
    ELSE extract_child(Head(shapes)) \o extract_children(Tail(shapes))

extract_group_shape(shape) ==
    compact(DictOfItems({<<"kind", StrOf("group")>>,
                         <<"children", PyList(extract_children(shape.shapes))>>}))

\* The nodes one shape adds to the elements of its slide: the first branch
\* of the if/elif chain that matches, none for a shape matching no branch.
extract_shape(shape) ==
    IF shape.shape_type = "CHART" THEN
        (IF Unreadable(shape) THEN <<>> ELSE <<extract_chart_data(shape.chart)>>)
    ELSE IF shape.shape_type = "TABLE" THEN <<extract_table_shape(shape)>>
    ELSE IF shape.shape_type = "PICTURE" THEN <<extract_picture_shape(shape)>>
    ELSE IF shape.has_text_frame THEN <<extract_text_shape(shape)>>
    ELSE IF shape.shape_type = "GROUP" THEN <<extract_group_shape(shape)>>
    ELSE <<>>

\* The loop over the shapes of a slide left by the first error.
RECURSIVE extract_shapes_until_error(_)
extract_shapes_until_error(shapes) ==
    IF shapes = <<>> \/ Unreadable(Head(shapes)) THEN <<>>
    ELSE extract_shape(Head(shapes)) \o extract_shapes_until_error(Tail(shapes))

RECURSIVE extract_shapes(_)
extract_shapes(shapes) ==
    IF shapes = <<>> THEN <<>>
    ELSE extract_shape(Head(shapes)) \o extract_shapes(Tail(shapes))

\* One iteration of the loop over prs.slides: the slide_data appended.
slide_data(i, shapes) ==
    PyDict([k \in {"slide_number", "elements"} |->
        IF k = "slide_number" THEN PyInt(i + 1)
        ELSE compact(PyList(extract_shapes(shapes)))])

file_results(n, slides) ==
    PyDict([k \in {"file_name", "slide_count", "slides"} |->
        CASE k = "file_name" -> StrOf("<in-memory>")
          [] k = "slide_count" -> PyInt(n)
          [] OTHER -> PyList(slides)])

-----------------------------------------------------------------------------
(* Input documents of the analyzer *)

MaxSlides == 2

Para(level, text, alignment) ==
    [level |-> level, text |-> text, alignment |-> alignment]

TextShape(ph, runs, paragraphs) ==
    [shape_type |-> IF ph = "None" THEN "TEXT_BOX" ELSE "PLACEHOLDER",
     has_text_frame |-> TRUE, is_placeholder |-> ph # "None", ph_type |-> ph,
     runs |-> runs, paragraphs |-> paragraphs, content_type |-> "None"]

Picture(content_type) ==
    [shape_type |-> "PICTURE", has_text_frame |-> FALSE,
     is_placeholder |-> FALSE, ph_type |-> "None", runs |-> <<>>,
     paragraphs |-> <<>>, content_type |-> content_type]

Connector ==
    [shape_type |-> "LINE", has_text_frame |-> FALSE,
     is_placeholder |-> FALSE, ph_type |-> "None", runs |-> <<>>,
     paragraphs |-> <<>>, content_type |-> "None"]

TitleHello == TextShape("TITLE", <<>>, <<Para(0, Hello, "None")>>)

Shapes ==
    {TitleHello,
     TextShape("SUBTITLE", <<18>>, <<Para(1, Hello, "CENTER (2)")>>),
     TextShape("None", <<18, 32>>, <<Para(0, <<>>, "None"),
                                    Para(2, Hello, "None")>>),
     TextShape("BODY", <<24>>, <<Para(0, <<>>, "None")>>),
     Picture("image/png"),
     Picture("None"),
     Connector}

SlideShapes ==
    {<<>>}
        \cup {<<s>> : s \in Shapes}
        \cup {<<s, u>> : s \in Shapes,
                         u \in {TitleHello, Picture("None"), Connector}}

Presentations == SeqsUpTo(SlideShapes, MaxSlides)

\* Text shapes by placeholder type and by the font sizes of the runs of the
\* first paragraph.
PlaceholderTypes ==
    {"None", "TITLE", "CENTER_TITLE", "SUBTITLE", "BODY", "unreadable"}

RunSizes ==
    {<<>>, <<0>>, <<18>>, <<24>>, <<32>>, <<18, 32>>, <<0, 24>>, <<-1, 32>>,
     <<18, -1>>}

TextShapes ==
    {TextShape(ph, runs, <<Para(0, Hello, "None")>>) :
        ph \in PlaceholderTypes, runs \in RunSizes}

\* Charts: the series by their categories and values.
Series(name, categories, values, failing) ==
    [name |-> name, categories |-> categories, values |-> values,
     failing |-> failing]

CategoryLists ==
    {PyNone, PyList(<<StrOf("A")>>), PyList(<<StrOf("A"), PyStr(<<>>)>>)}

ValueLists ==
    {PyNone, EmptyList,
     PyList(<<PyFloat("2.0")>>),
     PyList(<<PyFloat("2.0"), PyFloat("0.0")>>),
     PyList(<<PyNone, StrOf("n/a"), PyFloat("1.0")>>),
     PyList(<<PyFloat("1.0"), PyFloat("2.0"), PyFloat("2.0")>>)}

SeriesRead ==
    {Series(StrOf("S"), cats, vals, FALSE) :
        cats \in CategoryLists, vals \in ValueLists}

SeriesFailing == Series(StrOf("F"), PyNone, PyNone, TRUE)

Grid ==
    PyList(<<PyList(<<StrOf("A"), PyFloat("2.0")>>),
             PyList(<<PyNone, PyFloat("0.0")>>)>>)

ChartShape(title, series, excel) ==
    [shape_type |-> "CHART", has_text_frame |-> FALSE,
     chart |-> [title |-> title, chart_type |-> "PIE", series |-> series,
                excel |-> excel]]

ChartShapes ==
    {ChartShape(PyNone, <<s>>, PyNone) : s \in SeriesRead}
        \cup {ChartShape(StrOf("T"), <<s, s>>, Grid) : s \in SeriesRead}
        \cup {ChartShape(StrOf("T"), <<>>, PyNone)}
        \cup {ChartShape(PyNone, <<s, SeriesFailing>>, PyNone) : s \in SeriesRead}

Cell(text, is_merge_origin, is_spanned) ==
    [text |-> text, is_merge_origin |-> is_merge_origin,
     is_spanned |-> is_spanned]

TableShape(rows, columns) ==
    [shape_type |-> "TABLE", has_text_frame |-> FALSE,
     table |-> [rows |-> rows, columns |-> columns]]

TableShapes ==
    {TableShape(<<>>, 0),
     TableShape(<<<<Cell(StrOf("a"), TRUE, FALSE), Cell(PyStr(<<>>), FALSE, TRUE)>>,
                  <<Cell(StrOf("b"), FALSE, FALSE), Cell(StrOf("c"), FALSE, FALSE)>>>>,
                2)}

GroupShape(children) ==
    [shape_type |-> "GROUP", has_text_frame |-> FALSE, shapes |-> children]

GroupShapes ==
    {GroupShape(<<>>),
     GroupShape(<<TitleHello, Picture("image/png"), Connector>>),
     GroupShape(<<GroupShape(<<TitleHello>>), Picture("None")>>),
     GroupShape(<<GroupShape(<<>>)>>),
     GroupShape(<<ChartShape(PyNone, <<>>, PyNone), TableShape(<<>>, 0),
                  TextShape("None", <<24>>, <<Para(0, Hello, "None")>>)>>)}

\* A chart whose part is missing from the package.
BrokenChart ==
    [shape_type |-> "CHART", has_text_frame |-> FALSE, chart |-> Raise("KeyError")]

BrokenSlides ==
    {<<BrokenChart>>,
     <<TitleHello, BrokenChart, Picture("image/png")>>,
     <<GroupShape(<<TitleHello, BrokenChart, Picture("None")>>), BrokenChart,
       TitleHello>>}

BrokenDocuments ==
    {<<shapes>> : shapes \in BrokenSlides}
        \cup {<<shapes, <<TitleHello>>>> : shapes \in BrokenSlides}

\* Slides of one shape of every kind, and of two.
RichSlides ==
    {<<s>> : s \in TextShapes \cup ChartShapes \cup TableShapes \cup GroupShapes}
        \cup {<<s, u>> : s \in GroupShapes \cup TableShapes,
                         u \in GroupShapes \cup {TitleHello, Connector}}

Documents ==
    Presentations \cup {<<shapes>> : shapes \in RichSlides} \cup BrokenDocuments

-----------------------------------------------------------------------------
(* Parsed JSON texts given to cleaning_JSON *)

Cover == <<"c", "o", "v", "e", "r">>

Flags ==
    {PyNone, PyBool(TRUE), PyStr(TrueLiteral), PyStr(FalseLiteral),
     PyStr(<<"t", "r", "u", "e">>), PyStr(<<" ">> \o TrueLiteral \o <<" ">>),
     PyStr(<<"T">>)}

Optional(k, S) == {{}} \cup {{<<k, v>>} : v \in S}

SlideDicts ==
    {DictOfItems(l \cup f) :
        l \in Optional("layout", {PyNone, PyStr(Cover)}),
        f \in Optional("flag", {PyNone, PyStr(TrueLiteral),
                                PyStr(<<" ">> \o TrueLiteral \o <<" ">>)})}

SlideLists ==
    {PyList(l) :
        l \in SeqsUpTo(SlideDicts \cup {PyNone, PyStr(FalseLiteral)}, MaxLen)}

JsonTexts ==
    Flags \cup SlideLists
        \cup {DictOfItems(l \cup t \cup f \cup e) :
                l \in Optional("layout", {PyNone, PyStr(Cover)}),
                t \in Optional("title", {PyStr(<<"T">>)}),
                f \in Optional("flag", Flags),
                e \in Optional("slides", SlideLists)}

-----------------------------------------------------------------------------
(* The clock, the import of dateutil, and the arguments of parse_time *)

Quarter(year, ws, letter, n) == year \o ws \o <<letter, n>>

Y2025 == <<"2", "0", "2", "5">>
Y0000 == <<"0", "0", "0", "0">>
Y9999 == <<"9", "9", "9", "9">>

QuarterTexts ==
    {Quarter(y, ws, l, n) :
        y \in {Y2025, Y0000, Y9999}, ws \in {<<" ">>, <<" ", "\t">>},
        l \in {"Q", "q"}, n \in {"1", "2", "3", "4"}}

IsoDay(y, m, d) == y \o <<"-">> \o m \o <<"-">> \o d

DateTexts ==
    {IsoDay(Y2025, <<"0", "1">>, <<"0", "1">>),
     IsoDay(Y2025, <<"0", "6">>, <<"3", "0">>),
     IsoDay(Y2025, <<"1", "2">>, <<"3", "1">>),
     IsoDay(<<"2", "0", "2", "4">>, <<"1", "2">>, <<"0", "1">>)}

OtherTexts ==
    {<<>>,
     <<"n", "o", "t", "-", "a", "-", "d", "a", "t", "e">>,
     IsoDay(Y2025, <<"1", "3">>, <<"0", "1">>),
     Y2025 \o <<" ", "Q", "5">>,
     Y2025 \o <<"Q", "1">>,
     <<"2", "5", " ", "Q", "1">>}

Padded(S) == {<<" ">> \o s \o <<" ", "\n">> : s \in S}

TimeTexts ==
    QuarterTexts \cup DateTexts \cup OtherTexts
        \cup Padded({Quarter(Y2025, <<" ">>, "Q", "2"),
                     IsoDay(Y2025, <<"0", "6">>, <<"3", "0">>)})

Clocks == {DateTime(toordinal(2025, 6, 15), 36000),
           DateTime(toordinal(2025, 1, 1), 0)}

DateutilGuesses == {Raise("ParserError"), DateTime(toordinal(2025, 3, 5), 0)}

TimeArguments ==
    {PyNone, PyInt(0), PyInt(1735689600), PyInt(-1), PyBool(TRUE),
     PyFloat("inf"), PyFloat("nan"), PyFloat("1e20"),
     DateTime(toordinal(2024, 2, 29), 43200), EmptyList, EmptyDict}
        \cup {PyStr(s) : s \in TimeTexts}

InitEnv ==
    /\ dateparser \in BOOLEAN
    /\ dateutil_guess \in DateutilGuesses
    /\ now \in Clocks

IdleEnv ==
    /\ dateparser = FALSE
    /\ dateutil_guess = Raise("ParserError")
    /\ now = DateTime(toordinal(2025, 6, 15), 36000)

IdleTime ==
    /\ x = PyNone
    /\ parsed = PyNone

-----------------------------------------------------------------------------
(* The arguments of to_rgb *)

ColourChars == {"F", "0", "a", "G", "+"}

ColourPairs ==
    {<<"F", "F">>, <<"1", "B">>, <<"0", "a">>, <<"G", "G">>, <<"+", "F">>,
     <<" ", "F">>, <<"-", "1">>}

ColourBodies ==
    UNION {[1..m -> ColourChars] : m \in 0..3}
        \cup {p \o q \o r : p, q, r \in ColourPairs}
        \cup {<<"b", "o", "g", "u", "s">>, <<"F", "F", "F", "F">>,
              <<"F", "F", "F", "F", "F", "F", "F">>}

Colours ==
    {PyNone}
        \cup {PyStr(h \o b) : h \in {<<>>, <<"#">>, <<"#", "#">>},
                              b \in ColourBodies}

IdleRgb ==
    /\ hex_color = PyNone
    /\ rgb = PyNone

-----------------------------------------------------------------------------
(* The chart elements given to render_chart_gantt *)

MaxItems == 2

Jan01 == PyStr(IsoDay(Y2025, <<"0", "1">>, <<"0", "1">>))
Jun30 == PyStr(IsoDay(Y2025, <<"0", "6">>, <<"3", "0">>))
Dec31 == PyStr(IsoDay(Y2025, <<"1", "2">>, <<"3", "1">>))
Dec01Before == PyStr(IsoDay(<<"2", "0", "2", "4">>, <<"1", "2">>, <<"0", "1">>))

StartOf(date, lane) == DictOfItems({<<"x", date>>, <<"y", PyInt(lane)>>})
EndOf(date) == DictOfItems({<<"x", date>>})

ItemStarts ==
    Optional("start", {PyNone, StartOf(Jan01, 0), StartOf(Jun30, 1)})

ItemEnds ==
    Optional("end", {EndOf(Dec01Before), EndOf(Jun30)})

GanttItems ==
    {DictOfItems(s \cup e) : s \in ItemStarts, e \in ItemEnds}
        \cup {DictOfItems({<<"start", StartOf(Jan01, 0)>>, <<"end", EndOf(Jun30)>>,
                           <<"style", DictOfItems({<<"fill",
                                PyStr(<<"G", "G", "G", "G", "G", "G">>)>>})>>}),
              DictOfItems({<<"start", DictOfItems({<<"x", Jun30>>,
                                                   <<"y", PyStr(<<"a">>)>>})>>,
                           <<"end", EndOf(Jan01)>>,
                           <<"size", DictOfItems({<<"height", PyInt(62)>>})>>}),
              DictOfItems({<<"start", StartOf(PyStr(Y0000 \o <<" ", "Q", "1">>), 0)>>,
                           <<"end", EndOf(Jun30)>>}),
              DictOfItems({<<"start", StartOf(PyStr(<<>>), 0)>>,
                           <<"end", EmptyDict>>}),
              DictOfItems({<<"start", StartOf(Jan01, 1)>>, <<"end", EndOf(Jun30)>>,
                           <<"size", DictOfItems({<<"height", PyInt(-200)>>})>>})}

RangeOf(t0, t1) == DictOfItems({<<"t0", t0>>, <<"t1", t1>>})
LanesOf(names) == DictOfItems({<<"lanes", PyList(names)>>})

LaneA == PyStr(<<"A">>)
LaneB == PyStr(<<"B">>)

Quarters == PyList(<<LaneA, LaneB, LaneA>>)

\* The keys of a chart element other than its items.
ChartOfYear ==
    {<<"units", DictOfItems({<<"xRange", RangeOf(Jan01, Dec31)>>,
                             <<"yRange", LanesOf(<<LaneA, LaneB>>)>>})>>}

ChartReversed ==
    {<<"units", DictOfItems({<<"xRange", RangeOf(Jun30, Jan01)>>,
                             <<"yRange", LanesOf(<<LaneA, LaneB, LaneA>>)>>})>>,
     <<"gutterInches", PyInt(1200)>>}

GanttCharts ==
    {ChartOfYear,
     ChartReversed,
     {<<"units", DictOfItems({<<"yRange", LanesOf(<<>>)>>})>>,
      <<"position", [x |-> 50, y |-> 100, w |-> 900, h |-> 400]>>,
      <<"gutterInches", PyInt(150)>>,
      <<"grid", DictOfItems({<<"quarters", Quarters>>})>>},
     {<<"units", DictOfItems({<<"xRange", RangeOf(Jan01, Jun30)>>})>>,
      <<"grid", DictOfItems({<<"topAxisLine", PyBool(FALSE)>>})>>}}

GanttElements ==
    {DictOfItems(c \cup {<<"items", PyList(its)>>}) :
        c \in GanttCharts, its \in SeqsUpTo(GanttItems, MaxItems)}

IdleGantt ==
    /\ element = PyNone
    /\ item_i = 0
    /\ slide_shapes = <<>>
    /\ gantt_exc = PyNone

-----------------------------------------------------------------------------
(* The deck specifications given to build_ppt_from_spec *)

TextOf(variant, text) ==
    {<<"type", PyStr(StrText)>>, <<"variant", PyStr(variant)>>,
     <<"text", PyStr(text)>>}

HeadingHello == DictOfItems(TextOf(StrHeading, Hello))
ParagraphHello == DictOfItems(TextOf(StrParagraph, Hello))

CoverOf(items, elements) ==
    DictOfItems({<<"layout", PyStr(StrCover)>>,
                 <<"elements", PyList(elements)>>} \cup items)

CoverPlain == CoverOf({}, <<HeadingHello>>)

CoverFull ==
    CoverOf({<<"accentColor", PyStr(<<"#", "0", "E", "A">>)>>,
             <<"meta", DictOfItems({<<"owner", PyStr(<<"A">>)>>})>>},
            <<ParagraphHello, HeadingHello>>)

CoverBadAccent ==
    CoverOf({<<"accentColor", PyStr(<<"G", "G", "G", "G", "G", "G">>)>>}, <<>>)

GanttOf(chart, its) ==
    DictOfItems(chart \cup {<<"type", PyStr(StrChart)>>,
                            <<"subtype", PyStr(StrGantt)>>,
                            <<"items", PyList(its)>>})

SlideOf(items, elements) ==
    DictOfItems({<<"elements", PyList(elements)>>} \cup items)

GanttSlides ==
    {SlideOf({}, <<GanttOf(chart, its)>>) :
        chart \in {ChartOfYear, ChartReversed},
        its \in SeqsUpTo(GanttItems, MaxItems)}

TitleA == {<<"title", PyStr(<<"A">>)>>}

\* A slide of elements that the dispatcher has no renderer for.
StrQuote == <<"q", "u", "o", "t", "e">>

UnknownSlide ==
    SlideOf({}, <<DictOfItems({<<"type", PyStr(<<"x">>)>>}),
                  DictOfItems({<<"type", PyStr(StrChart)>>}),
                  DictOfItems({<<"type", PyStr(StrChart)>>,
                               <<"subtype", PyStr(<<"x">>)>>}),
                  DictOfItems(TextOf(StrQuote, Hello))>>)

OtherSlides ==
    {SlideOf(TitleA, <<ParagraphHello>>),
     SlideOf(TitleA, <<HeadingHello, ParagraphHello>>),
     SlideOf({}, <<DictOfItems(TextOf(StrBullets, Hello)),
                   DictOfItems({<<"type", PyStr(StrTable)>>}),
                   DictOfItems({<<"type", PyStr(StrChart)>>,
                                <<"subtype", PyStr(StrPie)>>}),
                   DictOfItems({<<"type", PyStr(<<"x">>)>>})>>),
     SlideOf({}, <<DictOfItems(TextOf(StrParagraph, Hello)
                      \cup {<<"style", DictOfItems({<<"text",
                                PyStr(<<"G", "G", "G">>)>>})>>})>>),
     DictOfItems({<<"elements", PyNone>>} \cup TitleA),
     UnknownSlide,
     CoverBadAccent,
     PyNone}

SlideLists4Build ==
    {<<cover, gantt>> : cover \in {CoverPlain, CoverFull}, gantt \in GanttSlides}
        \cup {<<s>> : s \in OtherSlides}
        \cup {<<CoverPlain, s, CoverFull>> : s \in OtherSlides}

\* Flat elements, with and without the number of their slide.
OnSlide(el, n) == PyDict([k \in DOMAIN el.d \cup {"slide"} |->
                            IF k = "slide" THEN n ELSE el.d[k]])

FlatElements ==
    {HeadingHello, ParagraphHello}
        \cup {OnSlide(ParagraphHello, n) :
                 n \in {PyInt(1), PyInt(2), PyInt(3), PyStr(<<"2">>),
                        PyStr(<<"x">>), PyNone}}

SlideSizes ==
    Optional("slide", {PyNone, EmptyDict,
                       DictOfItems({<<"size", PyStr(<<"4", ":", "3">>)>>}),
                       PyStr(<<"4", ":", "3">>)})

Metadata ==
    Optional("metadata", {PyNone, DictOfItems({<<"title", PyStr(<<"A">>)>>})})

BuildSpecs ==
    {DictOfItems({<<"slides", PyList(slides)>>}) : slides \in SlideLists4Build}
        \cup {DictOfItems({<<"elements", PyList(els)>>} \cup size \cup meta) :
                 els \in SeqsUpTo(FlatElements, 2), size \in SlideSizes,
                 meta \in Metadata}
        \cup {DictOfItems(size \cup meta) : size \in SlideSizes, meta \in Metadata}
        \cup {DictOfItems({<<"elements", PyNone>>}),
              DictOfItems({<<"slides", PyNone>>})}

IdleBuild ==
    /\ spec = PyNone
    /\ slide_size = PyNone
    /\ slides_spec = PyNone
    /\ deck = <<>>
    /\ build_exc = PyNone

-----------------------------------------------------------------------------
(* One call of _analyze_presentation_stream *)

IdleHandler ==
    /\ file_keys = PyNone
    /\ store = <<>>
    /\ s3_client = FALSE
    /\ file_n = 0
    /\ full_analysis = <<>>
    /\ processed_files = <<>>
    /\ failed_files = <<>>
    /\ response = PyNone

IdleRepeat ==
    /\ first_out = PyNone
    /\ second_out = PyNone

IdleFrame ==
    /\ legend_args = PyNone
    /\ frame = PyNone

IdleMore == IdleHandler /\ IdleRepeat /\ IdleFrame

IdleCompact ==
    /\ obj = PyNone
    /\ compacted = PyNone

IdleNormalize ==
    /\ data = PyNone
    /\ normalized = PyNone

IdleAnalyze ==
    /\ prs = <<>>
    /\ slide_i = 0
    /\ slides_out = <<>>
    /\ analysis = PyNone

InitAnalyze ==
    /\ pc = "analyze"
    /\ prs \in Documents
    /\ slide_i = 0
    /\ slides_out = <<>>
    /\ analysis = PyNone
    /\ IdleCompact
    /\ IdleNormalize
    /\ IdleEnv
    /\ IdleTime
    /\ IdleRgb
    /\ IdleGantt
    /\ IdleBuild
    /\ IdleMore

AnalyzeSlide ==
    /\ pc = "analyze"
    /\ slide_i < Len(prs)
    /\ slides_out' = Append(slides_out, slide_data(slide_i, prs[slide_i + 1]))
    /\ slide_i' = slide_i + 1
    /\ UNCHANGED <<pc, prs, analysis, compactVars, normalizeVars, others,
                   ganttVars, buildVars, moreVars>>

AnalyzeReturn ==
    /\ pc = "analyze"
    /\ slide_i = Len(prs)
    /\ analysis' = compact(file_results(Len(prs), slides_out))
    /\ pc' = "analyze_done"
    /\ UNCHANGED <<prs, slide_i, slides_out, compactVars, normalizeVars, others,
                   ganttVars, buildVars, moreVars>>

NextAnalyze == AnalyzeSlide \/ AnalyzeReturn

SpecAnalyze == InitAnalyze /\ [][NextAnalyze]_vars

-----------------------------------------------------------------------------
(* lambda_handler: a batch of keys read from the object store *)

\* str.endswith
EndsWith(s, suffix) ==
    /\ Len(s) >= Len(suffix)
    /\ SubSeq(s, Len(s) - Len(suffix) + 1, Len(s)) = suffix

DotPptx == <<".", "p", "p", "t", "x">>

\* _analyze_presentation_stream as one function of the document read.  The
\* file name it records is the key; file_results records a fixed name, which
\* nothing below looks at.
_analyze_presentation_stream(doc) ==
    compact(file_results(Len(doc),
                         [i \in 1..Len(doc) |-> slide_data(i - 1, doc[i])]))

\* The body of the try statement of one file: get_object, then the analysis
\* of the stream read.
get_and_analyze(content) ==
    CASE content.state = "missing" -> Raise("NoSuchKey")
      [] content.state = "corrupt" -> Raise("PackageNotFoundError")
      [] OTHER -> _analyze_presentation_stream(content.prs)

\* full_analysis[file_key] = result: a dict keeps the position of a key it
\* already holds.
put(full, key, value) ==
    IF \E i \in 1..Len(full) : full[i].key = key
    THEN [i \in 1..Len(full) |->
             IF full[i].key = key THEN [key |-> key, value |-> value]
             ELSE full[i]]
    ELSE Append(full, [key |-> key, value |-> value])

\* sum(1 for s in value['slides'] for e in s['elements'] if e.get('kind') ==
\* kind), given that every subscript succeeds.
total_of(value, kind) ==
    LET slides == value.d["slides"].l
    IN Cardinality({ij \in UNION {{<<i, j>> :
                                      j \in 1..Len(slides[i].d["elements"].l)} :
                                  i \in 1..Len(slides)} :
           LET e == slides[ij[1]].d["elements"].l[ij[2]]
           IN e.t = "dict" /\ Get(e, "kind", PyNone) = StrOf(kind)})

\* The subscripts of the summary of one file, in evaluation order.
summary_raises(value) ==
    \/ ~HasKey(value, "slides")
    \/ \E i \in 1..Len(value.d["slides"].l) :
           ~HasKey(value.d["slides"].l[i], "elements")
    \/ ~HasKey(value, "slide_count")

\* The summary loop: one entry per file, or the KeyError that leaves it.
summary_of(full) ==
    IF \E i \in 1..Len(full) : summary_raises(full[i].value)
    THEN [files |-> <<>>, exc |-> Raise("KeyError")]
    ELSE [files |-> [i \in 1..Len(full) |->
                        [key |-> full[i].key,
                         slide_count |-> full[i].value.d["slide_count"],
                         text |-> total_of(full[i].value, "text"),
                         tables |-> total_of(full[i].value, "table"),
                         charts |-> total_of(full[i].value, "chart")]],
          exc |-> PyNone]

MaxKeys == 3

KeyA == <<"a">> \o DotPptx
KeyB == <<"b">> \o DotPptx
KeyNotes == <<"a", ".", "t", "x", "t">>
Keys == {KeyA, KeyB, KeyNotes}

Missing == [state |-> "missing"]
Corrupt == [state |-> "corrupt"]
Readable(doc) == [state |-> "ok", prs |-> doc]

Contents ==
    {Missing, Corrupt,
     Readable(<<<<TitleHello>>>>),
     Readable(<<<<TitleHello>>, <<Connector>>>>),
     Readable(<<>>)}

Requests ==
    {PyNone} \cup {PyList(keys) : keys \in SeqsUpTo(Keys, MaxKeys)}

InitHandler ==
    /\ pc = "handler"
    /\ file_keys \in Requests
    /\ \E a \in Contents, b \in Contents :
           store = [k \in Keys |->
                       CASE k = KeyA -> a
                         [] k = KeyB -> b
                         [] OTHER -> Corrupt]
    /\ s3_client \in BOOLEAN
    /\ file_n = 0
    /\ full_analysis = <<>>
    /\ processed_files = <<>>
    /\ failed_files = <<>>
    /\ response = PyNone
    /\ IdleRepeat
    /\ IdleFrame
    /\ IdleCompact
    /\ IdleNormalize
    /\ IdleAnalyze
    /\ IdleEnv
    /\ IdleTime
    /\ IdleRgb
    /\ IdleGantt
    /\ IdleBuild

\* The two early returns, or the start of the loop over file_keys.
HandlerOpen ==
    /\ pc = "handler"
    /\ IF ~Truthy(file_keys)
       THEN /\ response' = [statusCode |-> 400]
            /\ pc' = "handler_done"
       ELSE IF ~s3_client
           THEN /\ response' = [statusCode |-> 500]
                /\ pc' = "handler_done"
           ELSE /\ pc' = "handler_files"
                /\ UNCHANGED response
    /\ UNCHANGED <<file_keys, store, s3_client, file_n, full_analysis,
                   processed_files, failed_files, repeatVars, frameVars,
                   compactVars, analyzeVars, normalizeVars, others, ganttVars,
                   buildVars>>

\* One iteration of the loop over file_keys.
HandlerFile ==
    /\ pc = "handler_files"
    /\ file_n < Len(file_keys.l)
    /\ LET file_key == file_keys.l[file_n + 1]
           result == get_and_analyze(store[file_key])
       IN IF ~EndsWith(file_key, DotPptx)
          THEN UNCHANGED <<full_analysis, processed_files, failed_files>>
          ELSE IF IsRaise(result)
              THEN /\ failed_files' = Append(failed_files, file_key)
                   /\ UNCHANGED <<full_analysis, processed_files>>
              ELSE /\ full_analysis' = put(full_analysis, file_key, result)
                   /\ processed_files' = Append(processed_files, file_key)
                   /\ UNCHANGED failed_files
    /\ file_n' = file_n + 1
    /\ UNCHANGED <<pc, file_keys, store, s3_client, response, repeatVars,
                   frameVars, compactVars, analyzeVars, normalizeVars, others,
                   ganttVars, buildVars>>

\* The summary and the answer, or the answer of the outer except clause.
HandlerAnswer ==
    /\ pc = "handler_files"
    /\ file_n = Len(file_keys.l)
    /\ LET summary == summary_of(full_analysis)
       IN response' =
              IF IsRaise(summary.exc) THEN [statusCode |-> 500]
              ELSE [statusCode |-> 200, summary |-> summary.files,
                    processed |-> processed_files, failed |-> failed_files]
    /\ pc' = "handler_done"
    /\ UNCHANGED <<file_keys, store, s3_client, file_n, full_analysis,
                   processed_files, failed_files, repeatVars, frameVars,
                   compactVars, analyzeVars, normalizeVars, others, ganttVars,
                   buildVars>>

NextHandler == HandlerOpen \/ HandlerFile \/ HandlerAnswer

SpecHandler == InitHandler /\ [][NextHandler]_vars

-----------------------------------------------------------------------------
(* Two calls of render_chart_gantt on one element, in two builds *)

Q1Of2025 == PyStr(Y2025 \o <<" ", "Q", "1">>)

Soon == PyStr(<<"s", "o", "o", "n">>)

RepeatCharts ==
    GanttCharts
        \cup {{<<"units", DictOfItems({<<"xRange", RangeOf(Q1Of2025, Dec31)>>})>>},
              {<<"units", DictOfItems({<<"xRange", RangeOf(Jan01, Soon)>>})>>}}

RepeatItems ==
    GanttItems
        \cup {DictOfItems({<<"start", StartOf(Soon, 0)>>, <<"end", EndOf(Jun30)>>})}

RepeatElements ==
    {DictOfItems(chart \cup {<<"items", PyList(its)>>}) :
        chart \in RepeatCharts, its \in SeqsUpTo(RepeatItems, 1)}

InitRepeat ==
    /\ pc = "repeat"
    /\ element \in RepeatElements
    /\ now \in Clocks
    /\ first_out = PyNone
    /\ second_out = PyNone
    /\ dateparser = FALSE
    /\ dateutil_guess = Raise("ParserError")
    /\ item_i = 0
    /\ slide_shapes = <<>>
    /\ gantt_exc = PyNone
    /\ IdleHandler
    /\ IdleFrame
    /\ IdleCompact
    /\ IdleNormalize
    /\ IdleAnalyze
    /\ IdleTime
    /\ IdleRgb
    /\ IdleBuild

\* The first call: what it drew, and when it was made.
RepeatFirst ==
    /\ pc = "repeat"
    /\ first_out' = [at |-> now, out |-> render_chart_gantt(element)]
    /\ pc' = "repeat_again"
    /\ UNCHANGED <<second_out, envVars, buildVars, handlerVars, frameVars,
                   compactVars, analyzeVars, normalizeVars, timeVars, rgbVars,
                   ganttVars>>

\* Time passes between the two calls.
RepeatTick ==
    /\ pc = "repeat_again"
    /\ \E later \in Clocks :
           /\ later.ord > now.ord
           /\ now' = later
    /\ UNCHANGED <<pc, repeatVars, dateparser, dateutil_guess, buildVars,
                   handlerVars, frameVars, compactVars, analyzeVars,
                   normalizeVars, timeVars, rgbVars, ganttVars>>

\* The second call, on the same element.
RepeatSecond ==
    /\ pc = "repeat_again"
    /\ second_out' = [at |-> now, out |-> render_chart_gantt(element)]
    /\ pc' = "repeat_done"
    /\ UNCHANGED <<first_out, envVars, buildVars, handlerVars, frameVars,
                   compactVars, analyzeVars, normalizeVars, timeVars, rgbVars,
                   ganttVars>>

NextRepeat == RepeatFirst \/ RepeatTick \/ RepeatSecond

SpecRepeat == InitRepeat /\ [][NextRepeat]_vars

-----------------------------------------------------------------------------
(* _padded_chart_frame: the frame of a native chart, its legend set apart *)

\* inches_rect of a position that states its four sides, in hundredths of an
\* inch.
inches_rect(position) ==
    [x |-> Inches(position.x), y |-> Inches(position.y),
     w |-> Inches(position.w), h |-> Inches(position.h)]

_padded_chart_frame(position, legend_pos, pad_in) ==
    LET r == inches_rect(position)
        pad == Inches(Max(pad_in, 0))
    IN  CASE legend_pos = "right" ->
                [r EXCEPT !.w = Max(Inches(100), r.w - pad)]
          [] legend_pos = "left" ->
                [r EXCEPT !.x = r.x + pad, !.w = Max(Inches(100), r.w - pad)]
          [] legend_pos = "top" ->
                [r EXCEPT !.y = r.y + pad, !.h = Max(Inches(100), r.h - pad)]
          [] legend_pos = "bottom" ->
                [r EXCEPT !.h = Max(Inches(100), r.h - pad)]
          [] OTHER -> r

LegendPositions == {"right", "left", "top", "bottom", "corner", "middle"}

FramePositions ==
    [x : {0, 100}, y : {100}, w : {50, 500, 1000}, h : {50, 400}]

LegendPads == {-50, 0, 70, 300}

InitFrame ==
    /\ pc = "frame"
    /\ legend_args \in [position : FramePositions, legend_pos : LegendPositions,
                         pad_in : LegendPads]
    /\ frame = PyNone
    /\ IdleHandler
    /\ IdleRepeat
    /\ IdleCompact
    /\ IdleNormalize
    /\ IdleAnalyze
    /\ IdleEnv
    /\ IdleTime
    /\ IdleRgb
    /\ IdleGantt
    /\ IdleBuild

FrameCall ==
    /\ pc = "frame"
    /\ frame' = _padded_chart_frame(legend_args.position, legend_args.legend_pos,
                                    legend_args.pad_in)
    /\ pc' = "frame_done"
    /\ UNCHANGED <<legend_args, handlerVars, repeatVars, compactVars,
                   analyzeVars, normalizeVars, others, ganttVars, buildVars>>

NextFrame == FrameCall

SpecFrame == InitFrame /\ [][NextFrame]_vars

-----------------------------------------------------------------------------
(* One call of compact *)

InitCompact ==
    /\ pc = "compact"
    /\ obj \in Trees
    /\ compacted = PyNone
    /\ IdleAnalyze
    /\ IdleNormalize
    /\ IdleEnv
    /\ IdleTime
    /\ IdleRgb
    /\ IdleGantt
    /\ IdleBuild
    /\ IdleMore

Compact ==
    /\ pc = "compact"
    /\ compacted' = compact(obj)
    /\ pc' = "compact_done"
    /\ UNCHANGED <<obj, analyzeVars, normalizeVars, others, ganttVars,
                   buildVars, moreVars>>

NextCompact == Compact

SpecCompact == InitCompact /\ [][NextCompact]_vars

-----------------------------------------------------------------------------
(* One call of cleaning_JSON *)

InitNormalize ==
    /\ pc = "normalize"
    /\ data \in JsonTexts
    /\ normalized = PyNone
    /\ IdleCompact
    /\ IdleAnalyze
    /\ IdleEnv
    /\ IdleTime
    /\ IdleRgb
    /\ IdleGantt
    /\ IdleBuild
    /\ IdleMore

CleaningJSON ==
    /\ pc = "normalize"
    /\ normalized' = normalize(data)
    /\ pc' = "normalize_done"
    /\ UNCHANGED <<data, compactVars, analyzeVars, others, ganttVars,
                   buildVars, moreVars>>

NextNormalize == CleaningJSON

SpecNormalize == InitNormalize /\ [][NextNormalize]_vars

-----------------------------------------------------------------------------
(* One call of parse_time *)

InitTime ==
    /\ pc = "parse_time"
    /\ InitEnv
    /\ x \in TimeArguments
    /\ parsed = PyNone
    /\ IdleCompact
    /\ IdleAnalyze
    /\ IdleNormalize
    /\ IdleRgb
    /\ IdleGantt
    /\ IdleBuild
    /\ IdleMore

ParseTime ==
    /\ pc = "parse_time"
    /\ parsed' = parse_time(x)
    /\ pc' = IF IsRaise(parse_time(x)) THEN "parse_time_raised"
                                       ELSE "parse_time_done"
    /\ UNCHANGED <<x, envVars, rgbVars, compactVars, analyzeVars, normalizeVars,
                   ganttVars, buildVars, moreVars>>

NextTime == ParseTime

SpecTime == InitTime /\ [][NextTime]_vars

-----------------------------------------------------------------------------
(* One call of to_rgb *)

InitRgb ==
    /\ pc = "to_rgb"
    /\ hex_color \in Colours
    /\ rgb = PyNone
    /\ IdleCompact
    /\ IdleAnalyze
    /\ IdleNormalize
    /\ IdleEnv
    /\ IdleTime
    /\ IdleGantt
    /\ IdleBuild
    /\ IdleMore

ToRgb ==
    /\ pc = "to_rgb"
    /\ rgb' = to_rgb(hex_color)
    /\ pc' = IF IsRaise(to_rgb(hex_color)) THEN "to_rgb_raised"
                                           ELSE "to_rgb_done"
    /\ UNCHANGED <<hex_color, envVars, timeVars, compactVars, analyzeVars,
                   normalizeVars, ganttVars, buildVars, moreVars>>

NextRgb == ToRgb

SpecRgb == InitRgb /\ [][NextRgb]_vars

-----------------------------------------------------------------------------
(* One call of render_chart_gantt *)

InitGantt ==
    /\ pc = "gantt"
    /\ element \in GanttElements
    /\ item_i = 0
    /\ slide_shapes = <<>>
    /\ gantt_exc = PyNone
    /\ IdleEnv
    /\ IdleCompact
    /\ IdleAnalyze
    /\ IdleNormalize
    /\ IdleTime
    /\ IdleRgb
    /\ IdleBuild
    /\ IdleMore

gantt_items(el) == Get(el, "items", EmptyList).l

\* From the entry to the loop over the items: the layout, then the lanes and
\* the grid are drawn.
GanttFrame ==
    /\ pc = "gantt"
    /\ LET lay == gantt_layout(element)
       IN  IF IsRaise(lay)
               THEN /\ gantt_exc' = lay
                    /\ pc' = "gantt_raised"
                    /\ UNCHANGED slide_shapes
               ELSE /\ slide_shapes' = lane_shapes(lay, 0) \o grid_shapes(element)
                    /\ pc' = "gantt_items"
                    /\ UNCHANGED gantt_exc
    /\ UNCHANGED <<element, item_i, compactVars, analyzeVars, normalizeVars,
                   others, buildVars, moreVars>>

\* One iteration of the loop over the items.
GanttItem ==
    /\ pc = "gantt_items"
    /\ item_i < Len(gantt_items(element))
    /\ LET drawn == draw_item(gantt_layout(element),
                             gantt_items(element)[item_i + 1], item_i + 1)
       IN  /\ slide_shapes' = slide_shapes \o drawn.added
           /\ gantt_exc' = drawn.exc
           /\ pc' = IF IsRaise(drawn.exc) THEN "gantt_raised" ELSE "gantt_items"
    /\ item_i' = item_i + 1
    /\ UNCHANGED <<element, compactVars, analyzeVars, normalizeVars, others,
                   buildVars, moreVars>>

GanttReturn ==
    /\ pc = "gantt_items"
    /\ item_i = Len(gantt_items(element))
    /\ pc' = "gantt_done"
    /\ UNCHANGED <<ganttVars, compactVars, analyzeVars, normalizeVars, others,
                   buildVars, moreVars>>

NextGantt == GanttFrame \/ GanttItem \/ GanttReturn

SpecGantt == InitGantt /\ [][NextGantt]_vars

-----------------------------------------------------------------------------
(* One call of build_ppt_from_spec *)

InitBuild ==
    /\ pc = "build"
    /\ spec \in BuildSpecs
    /\ slide_size = PyNone
    /\ slides_spec = PyNone
    /\ deck = <<>>
    /\ build_exc = PyNone
    /\ IdleEnv
    /\ IdleCompact
    /\ IdleAnalyze
    /\ IdleNormalize
    /\ IdleTime
    /\ IdleRgb
    /\ IdleGantt
    /\ IdleMore

\* From the entry to the loop over the slides: the slide size and the slide
\* model.
BuildOpen ==
    /\ pc = "build"
    /\ LET size == slide_size_of(spec)
           model == slides_spec_of(spec)
       IN  IF IsRaise(size)
               THEN /\ build_exc' = size
                    /\ pc' = "build_raised"
                    /\ UNCHANGED <<slide_size, slides_spec>>
           ELSE IF IsRaise(model)
               THEN /\ build_exc' = model
                    /\ slide_size' = size
                    /\ pc' = "build_raised"
                    /\ UNCHANGED slides_spec
           ELSE /\ slide_size' = size
                /\ slides_spec' = model
                /\ pc' = "build_slides"
                /\ UNCHANGED build_exc
    /\ UNCHANGED <<spec, deck, compactVars, analyzeVars, normalizeVars, others,
                   ganttVars, moreVars>>

\* One iteration of the loop over the slides.
BuildSlide ==
    /\ pc = "build_slides"
    /\ Len(deck) < Len(slides_spec.l)
    /\ LET built == build_slide(slides_spec.l[Len(deck) + 1])
       IN  /\ deck' = deck \o built.slides
           /\ build_exc' = built.exc
           /\ pc' = IF IsRaise(built.exc) THEN "build_raised" ELSE "build_slides"
    /\ UNCHANGED <<spec, slide_size, slides_spec, compactVars, analyzeVars,
                   normalizeVars, others, ganttVars, moreVars>>

\* The loop is over: the deck is saved as it is.
BuildSave ==
    /\ pc = "build_slides"
    /\ Len(deck) = Len(slides_spec.l)
    /\ pc' = "build_done"
    /\ UNCHANGED <<buildVars, compactVars, analyzeVars, normalizeVars, others,
                   ganttVars, moreVars>>

NextBuild == BuildOpen \/ BuildSlide \/ BuildSave

SpecBuild == InitBuild /\ [][NextBuild]_vars

-----------------------------------------------------------------------------
(* Compaction and the text nodes of the analyzer *)

\* C1: compact never removes a key whose value is the literal 0 or the empty
\* string: every key of a dict that holds 0 or "" is still there, with the
\* same value, in the compacted dict; a key that is removed held a value
\* whose compaction is None, False, [] or {}.
C1_ZeroAndEmptyStringKept ==
    (pc = "compact_done" /\ obj.t = "dict") =>
        /\ \A k \in DOMAIN obj.d :
               obj.d[k] \in {PyInt(0), PyStr(<<>>)} =>
                   /\ k \in DOMAIN compacted.d
                   /\ compacted.d[k] = obj.d[k]
        /\ \A k \in DOMAIN obj.d \ DOMAIN compacted.d :
               compact(obj.d[k]) \in {PyNone, PyBool(FALSE), EmptyList, EmptyDict}

SlidesOf(result) ==
    IF HasKey(result, "slides") THEN result.d["slides"].l ELSE <<>>

ElementsOf(slide) ==
    IF HasKey(slide, "elements") THEN slide.d["elements"].l ELSE <<>>

HelloNode ==
    PyDict([k \in {"kind", "role", "paragraphs"} |->
        CASE k = "kind" -> StrOf("text")
          [] k = "role" -> StrOf("title")
          [] OTHER -> PyList(<<PyDict([j \in {"level", "text"} |->
                         IF j = "level" THEN PyInt(0) ELSE PyStr(Hello)])>>)])

\* C2: in the result of an analysis every paragraph entry of every text node
\* carries both its level and its text, and the document of one slide
\* holding one title placeholder with the paragraph "Hello" gives exactly
\* [{"kind":"text","role":"title","paragraphs":[{"level":0,"text":"Hello"}]}]
\* as slides[0].elements.
C2_ParagraphsCarryLevelAndText ==
    pc = "analyze_done" =>
        /\ \A i \in DOMAIN SlidesOf(analysis) :
             \A e \in DOMAIN ElementsOf(SlidesOf(analysis)[i]) :
               LET node == ElementsOf(SlidesOf(analysis)[i])[e]
               IN  node.d["kind"] = StrOf("text") =>
                     \A n \in DOMAIN node.d["paragraphs"].l :
                       /\ HasKey(node.d["paragraphs"].l[n], "level")
                       /\ HasKey(node.d["paragraphs"].l[n], "text")
        /\ prs = <<<<TitleHello>>>> =>
             ElementsOf(SlidesOf(analysis)[1]) = <<HelloNode>>

-----------------------------------------------------------------------------
(* The normalizer *)

RECURSIVE BooleanStringsConverted(_, _)
BooleanStringsConverted(in, out) ==
    CASE in.t = "str" ->
           /\ in.s = TrueLiteral => out = PyBool(TRUE)
           /\ in.s = FalseLiteral => out = PyBool(FALSE)
      [] in.t = "dict" ->
           /\ out.t = "dict"
           /\ \A k \in DOMAIN in.d \cap DOMAIN out.d :
                  BooleanStringsConverted(in.d[k], out.d[k])
      [] in.t = "list" ->
           /\ out.t = "list"
           /\ Len(out.l) = Len(in.l)
           /\ \A n \in DOMAIN in.l : BooleanStringsConverted(in.l[n], out.l[n])
      [] OTHER -> TRUE

ScenarioText ==
    DictOfItems({<<"layout", PyNone>>, <<"title", PyStr(<<"T">>)>>,
                 <<"flag", PyStr(TrueLiteral)>>})

ScenarioTree ==
    DictOfItems({<<"title", PyStr(<<"T">>)>>, <<"flag", PyBool(TRUE)>>})

\* C3: cleaning_JSON turns every scalar string that is exactly "True" into
\* true and every one that is exactly "False" into false, at any depth, and
\* {"layout": null, "title": "T", "flag": "True"} normalizes to
\* {"title": "T", "flag": true}.
C3_BooleanStringsConverted ==
    pc = "normalize_done" =>
        /\ BooleanStringsConverted(data, normalized)
        /\ data = ScenarioText => normalized = ScenarioTree

RECURSIVE OnlyNullLayoutRemoved(_, _)
OnlyNullLayoutRemoved(in, out) ==
    CASE in.t = "str" ->
           in.s \notin {TrueLiteral, FalseLiteral} => out = in
      [] in.t = "dict" ->
           /\ out.t = "dict"
           /\ DOMAIN out.d =
                  {k \in DOMAIN in.d : ~(k = "layout" /\ in.d[k] = PyNone)}
           /\ \A k \in DOMAIN out.d : OnlyNullLayoutRemoved(in.d[k], out.d[k])
      [] in.t = "list" ->
           /\ out.t = "list"
           /\ Len(out.l) = Len(in.l)
           /\ \A n \in DOMAIN in.l : OnlyNullLayoutRemoved(in.l[n], out.l[n])
      [] OTHER -> out = in

\* C4: the normalizer removes exactly the keys named layout whose value is
\* null, in every mapping at every depth, and changes nothing else: every
\* other key is kept (other null-valued keys and non-null layout keys too),
\* lists keep their length and order, and every scalar other than the strings
\* "True" and "False" is returned unchanged.
C4_OnlyNullLayoutRemoved ==
    pc = "normalize_done" => OnlyNullLayoutRemoved(data, normalized)

\* A text with a null layout at the top and inside a list, a null flag, a
\* non-null layout and the lowercase string "true", once normalized.
C4_Witness ==
    /\ pc = "normalize_done"
    /\ HasKey(data, "layout") /\ data.d["layout"] = PyNone
    /\ HasKey(data, "flag") /\ data.d["flag"] = PyStr(<<"t", "r", "u", "e">>)
    /\ HasKey(data, "slides")
    /\ \E n, m \in DOMAIN data.d["slides"].l :
          LET a == data.d["slides"].l[n]
              b == data.d["slides"].l[m]
          IN  /\ HasKey(a, "layout") /\ a.d["layout"] = PyNone
              /\ HasKey(a, "flag") /\ a.d["flag"] = PyNone
              /\ HasKey(b, "layout") /\ b.d["layout"] = PyStr(Cover)
              /\ ~HasKey(normalized.d["slides"].l[n], "layout")
              /\ HasKey(normalized.d["slides"].l[n], "flag")
    /\ ~HasKey(normalized, "layout")

-----------------------------------------------------------------------------
(* Time and colour coercion *)

\* C5: parse_time never raises: for every argument (None, a number, a
\* datetime, any text, any other value) the call returns a datetime.
C5_ParseTimeNeverRaises ==
    pc \in {"parse_time_done", "parse_time_raised"} =>
        ~IsRaise(parsed) /\ parsed.t = "datetime"

QuarterMonths == <<1, 4, 7, 10>>

\* C6: for every text "<4-digit year> Q<n>" with n in 1..4 (either case of
\* Q, white space around it ignored) parse_time returns the first day of
\* month 1, 4, 7 or 10 of that year, whatever the general parser or the ISO
\* parser would make of the text.
C6_QuartersStartTheirFirstMonth ==
    (/\ pc \in {"parse_time_done", "parse_time_raised"}
     /\ x.t = "str"
     /\ strip(x.s) \in QuarterTexts) =>
        LET s == strip(x.s)
        IN  parsed = DateTime(toordinal(int(SubSeq(s, 1, 4)),
                                        QuarterMonths[int(<<s[Len(s)]>>)], 1), 0)

OneHashOff(s) == IF s # <<>> /\ Head(s) = "#" THEN Tail(s) ELSE s
AllHex(s) == \A n \in DOMAIN s : IsHex(s[n])
Channel(a, b) == 16 * HexVal(a) + HexVal(b)

\* C7: to_rgb never fails: a text of 3 or 6 hexadecimal digits, after an
\* optional leading '#', gives that colour (each digit of the 3-digit form
\* doubled), and every other text gives the default dark colour 1B1B1B.
C7_ToRgbTotal ==
    (pc \in {"to_rgb_done", "to_rgb_raised"} /\ hex_color.t = "str") =>
        LET s == OneHashOff(hex_color.s)
        IN  IF Len(s) = 6 /\ AllHex(s)
                THEN rgb = [r |-> Channel(s[1], s[2]), g |-> Channel(s[3], s[4]),
                            b |-> Channel(s[5], s[6])]
            ELSE IF Len(s) = 3 /\ AllHex(s)
                THEN rgb = [r |-> Channel(s[1], s[1]), g |-> Channel(s[2], s[2]),
                            b |-> Channel(s[3], s[3])]
            ELSE rgb = [r |-> 27, g |-> 27, b |-> 27]

-----------------------------------------------------------------------------
(* The bars of the gantt renderer *)

IsChevron(shape) == shape.kind = "chevron"
Chevrons == SelectSeq(slide_shapes, IsChevron)

\* An item has a date at start / end when that key holds a mapping whose x
\* is neither missing nor empty.
HasDate(it, key) ==
    /\ key \in DOMAIN it.d
    /\ it.d[key].t = "dict"
    /\ "x" \in DOMAIN it.d[key].d
    /\ Truthy(it.d[key].d["x"])

HasBothDates(it) == HasDate(it, "start") /\ HasDate(it, "end")

StartDate(it) == parse_time(it.d["start"].d["x"])
EndDate(it) == parse_time(it.d["end"].d["x"])

After(a, b) == a.ord > b.ord \/ (a.ord = b.ord /\ a.tod > b.tod)

WithX(point, date) ==
    PyDict([k \in DOMAIN point.d |-> IF k = "x" THEN date ELSE point.d[k]])

\* The item with its start and end dates exchanged.
Exchanged(it) ==
    PyDict([k \in DOMAIN it.d |->
        CASE k = "start" -> WithX(it.d["start"], it.d["end"].d["x"])
          [] k = "end" -> WithX(it.d["end"], it.d["start"].d["x"])
          [] OTHER -> it.d[k]])

\* C8: every bar drawn has a non-negative width, and the bar of an item whose
\* start date is after its end date has the left edge and the width of the
\* bar drawn for the item with start and end exchanged.
C8_BarWidthNonNegative ==
    \A c \in DOMAIN Chevrons :
        LET bar == Chevrons[c]
            it == gantt_items(element)[bar.item]
            other == draw_item(gantt_layout(element), Exchanged(it), bar.item)
        IN  /\ bar.width >= 0
            /\ After(StartDate(it), EndDate(it)) =>
                   /\ Len(other.added) = 1
                   /\ other.added[1].left = bar.left
                   /\ other.added[1].width = bar.width

\* A rendering that has drawn the bar of an item starting after its end, over
\* a range of more than one day.
C8_Witness ==
    /\ pc = "gantt_done"
    /\ gantt_layout(element).total_days > 1
    /\ \E c \in DOMAIN Chevrons :
          LET it == gantt_items(element)[Chevrons[c].item]
          IN  /\ After(StartDate(it), EndDate(it))
              /\ Chevrons[c].width > 0

\* An item with both dates that the renderer can draw: ISO dates, an integer
\* lane, default colours and height.
Drawable(it) ==
    /\ DOMAIN it.d = {"start", "end"}
    /\ \A key \in {"start", "end"} :
          it.d[key].d["x"].t = "str" /\ IsIsoDate(it.d[key].d["x"].s)
    /\ Get(it.d["start"], "y", PyInt(0)).t = "int"

Dated == {n \in DOMAIN gantt_items(element) :
             HasBothDates(gantt_items(element)[n])}

\* C10: an item lacking a start or an end date is skipped without error and
\* draws no bar, and every item of the list having both dates is drawn, in
\* list order: when the rendering ends, the bars are those of the items with
\* both dates.  Stated for lists whose items with both dates are all drawable.
C10_UndatedItemsSkipped ==
    (/\ pc \in {"gantt_done", "gantt_raised"}
     /\ ~IsRaise(gantt_layout(element))
     /\ \A n \in Dated : Drawable(gantt_items(element)[n])) =>
        /\ pc = "gantt_done"
        /\ Len(Chevrons) = Cardinality(Dated)
        /\ \A c \in DOMAIN Chevrons : Chevrons[c].item \in Dated
        /\ \A c, d \in DOMAIN Chevrons :
               c < d => Chevrons[c].item < Chevrons[d].item

-----------------------------------------------------------------------------
(* A deck of one cover slide and one gantt slide *)

IsGantt(el) ==
    /\ el.t = "dict"
    /\ Get(el, "type", PyNone) = PyStr(StrChart)
    /\ Get(el, "subtype", PyNone) = PyStr(StrGantt)

CoverThenGantt(sp) ==
    /\ HasKey(sp, "slides")
    /\ sp.d["slides"].t = "list"
    /\ Len(sp.d["slides"].l) = 2
    /\ LET cover == sp.d["slides"].l[1]
           second == sp.d["slides"].l[2]
       IN  /\ HasKey(cover, "layout")
           /\ cover.d["layout"] = PyStr(StrCover)
           /\ HasKey(second, "elements")
           /\ ~HasKey(second, "layout")
           /\ second.d["elements"].t = "list"
           /\ Len(second.d["elements"].l) = 1
           /\ IsGantt(second.d["elements"].l[1])

GanttOfDeck == spec.d["slides"].l[2].d["elements"].l[1]

BarsOfDeck == SelectSeq(deck[2], IsChevron)

StartsAtT0(el, it) == StartDate(it) = gantt_layout(el).t0

\* The left edge of the content area, on the scale of the bars.
ContentLeft(el) == gantt_layout(el).content_x * gantt_layout(el).total_days

-----------------------------------------------------------------------------
(* The flat model: elements tagged with the number of their slide *)

FlatSpec == spec.t = "dict" /\ ~Truthy(Get(spec, "slides", PyNone))

FlatElementsOf == OrElse(Get(spec, "elements", EmptyList), EmptyList).l

\* The slide model has been resolved from the flat elements.
FlatResolved == FlatSpec /\ slides_spec # PyNone

ElementsOfSlide(k) == slides_spec.l[k].d["elements"].l

\* The number carried by the elements of the k-th slide.
IndexOfSlide(k) == slide_number(ElementsOfSlide(k)[1]).i

\* The position of the first element of the list tagged with slide i.
FirstSeen(i) ==
    CHOOSE n \in DOMAIN FlatElementsOf :
        /\ slide_number(FlatElementsOf[n]).i = i
        /\ \A m \in 1..(n - 1) : slide_number(FlatElementsOf[m]).i # i

\* C11: the slides of the flat model are in ascending order of their slide
\* index whatever the order of the list: every slide holds the elements of
\* one index, every index of the list has its slide, and a slide with a
\* smaller index comes first.
C11_FlatSlidesAscending ==
    FlatResolved =>
        /\ \A k \in DOMAIN slides_spec.l :
               /\ ElementsOfSlide(k) # <<>>
               /\ \A n \in DOMAIN ElementsOfSlide(k) :
                      slide_number(ElementsOfSlide(k)[n]).i = IndexOfSlide(k)
        /\ {IndexOfSlide(k) : k \in DOMAIN slides_spec.l}
               = {slide_number(FlatElementsOf[n]).i : n \in DOMAIN FlatElementsOf}
        /\ \A j, k \in DOMAIN slides_spec.l :
               j < k => IndexOfSlide(j) < IndexOfSlide(k)

\* A list whose first element is tagged slide 2 and whose second is tagged
\* slide 1, resolved into two slides.
C11_Witness ==
    /\ FlatResolved
    /\ Len(FlatElementsOf) = 2
    /\ slide_number(FlatElementsOf[1]).i = 2
    /\ slide_number(FlatElementsOf[2]).i = 1
    /\ Len(slides_spec.l) = 2

\* C12 as stated: the slides of the flat model are in the order in which
\* their indices are first seen in the list.
C12_FlatSlidesFirstSeen ==
    FlatResolved =>
        \A j, k \in DOMAIN slides_spec.l :
            j < k => FirstSeen(IndexOfSlide(j)) < FirstSeen(IndexOfSlide(k))

\* C12, amended: the slides of the flat model are in ascending order of
\* their indices, and the elements of each slide are the elements of the
\* list tagged with its index, in the order of the list.
C12_FlatSlidesAscendingElementsInListOrder ==
    FlatResolved =>
        /\ \A j, k \in DOMAIN slides_spec.l :
               j < k => IndexOfSlide(j) < IndexOfSlide(k)
        /\ \A k \in DOMAIN slides_spec.l :
               \A m, n \in DOMAIN ElementsOfSlide(k) :
                   m < n =>
                       \E a, b \in DOMAIN FlatElementsOf :
                           /\ a < b
                           /\ FlatElementsOf[a] = ElementsOfSlide(k)[m]
                           /\ FlatElementsOf[b] = ElementsOfSlide(k)[n]

\* A list of two different elements of one slide, resolved.
C12_Witness ==
    /\ FlatResolved
    /\ Len(slides_spec.l) = 1
    /\ Len(ElementsOfSlide(1)) = 2
    /\ ElementsOfSlide(1)[1] # ElementsOfSlide(1)[2]

\* C13: in the flat model an element whose slide index is missing or invalid
\* (absent, null, or no integer) is placed on slide 1, and grouping never
\* raises: the build gets past the resolution of the slide model, and the
\* first slide holds every such element.
InvalidIndex(el) ==
    \/ "slide" \notin DOMAIN el.d
    \/ el.d["slide"].t = "None"
    \/ el.d["slide"].t = "str" /\ ~AllDigits(el.d["slide"].s)

C13_InvalidIndexOnSlideOne ==
    (FlatSpec /\ pc # "build") =>
        /\ slides_spec # PyNone
        /\ \A n \in DOMAIN FlatElementsOf :
               InvalidIndex(FlatElementsOf[n]) =>
                   /\ IndexOfSlide(1) = 1
                   /\ \E m \in DOMAIN ElementsOfSlide(1) :
                          ElementsOfSlide(1)[m] = FlatElementsOf[n]

-----------------------------------------------------------------------------
(* The slide size and the deck without slides *)

Size16x9 == PyStr(<<"1", "6", ":", "9">>)
Size4x3 == PyStr(<<"4", ":", "3">>)

\* spec["slide"]["size"], "16:9" when it is absent.
SizeAsked ==
    Get(OrElse(Get(spec, "slide", PyNone), EmptyDict), "size", Size16x9)

\* C14: the slide dimensions of the deck are selected by slide.size:
\* 13.333 x 7.5 when it is "16:9" or absent, 10 x 7.5 when it is "4:3".
C14_SlideSizeSelected ==
    (spec.t = "dict" /\ slide_size # PyNone) =>
        /\ SizeAsked = Size16x9 => slide_size = [width |-> 13333, height |-> 7500]
        /\ SizeAsked = Size4x3 => slide_size = [width |-> 10000, height |-> 7500]

\* The spec holds neither a slide list nor a flat element list, and its slide
\* field, when given, is a mapping.
NeitherModel ==
    /\ spec.t = "dict"
    /\ Get(spec, "slides", PyNone) = PyNone
    /\ Get(spec, "elements", PyNone) = PyNone
    /\ Get(spec, "slide", PyNone).t \in {"None", "dict"}

-----------------------------------------------------------------------------
(* The tree of the analyzer *)

\* No mapping of the tree, at any depth, holds null, false, [] or {}.
RECURSIVE FullyCompact(_)
FullyCompact(node) ==
    CASE node.t = "dict" ->
            \A k \in DOMAIN node.d :
                /\ node.d[k] \notin {PyNone, PyBool(FALSE), EmptyList, EmptyDict}
                /\ FullyCompact(node.d[k])
      [] node.t = "list" ->
            \A n \in DOMAIN node.l : FullyCompact(node.l[n])
      [] OTHER -> TRUE

\* C16: the tree returned by _analyze_presentation_stream is fully compacted:
\* no mapping at any depth holds a key whose value is null, false, an empty
\* list or an empty map.
C16_AnalysisFullyCompact ==
    pc = "analyze_done" => FullyCompact(analysis)

\* The analysis of a document holding a slide without shapes and a chart
\* without title, series or workbook.
C16_Witness ==
    /\ pc = "analyze_done"
    /\ \E i \in DOMAIN prs :
          \/ prs[i] = <<>> /\ Len(prs) = 2
          \/ prs[i] = <<ChartShape(PyNone, <<>>, PyNone)>>
    /\ \E i \in DOMAIN prs : prs[i] # <<>>
    /\ HasKey(analysis, "slides")

\* C17: compaction is idempotent: compacting the result of compact gives the
\* same tree.
C17_CompactIdempotent ==
    pc = "compact_done" => compact(compacted) = compacted

\* A tree that compaction changes at the second level, compacted.
C17_Witness ==
    /\ pc = "compact_done"
    /\ compacted # obj
    /\ obj.t = "dict"
    /\ \E k \in DOMAIN obj.d :
          /\ obj.d[k].t \in {"dict", "list"}
          /\ obj.d[k] \notin {EmptyDict, EmptyList}
          /\ compact(obj.d[k]) \in {EmptyDict, EmptyList}

\* The kind of node a shape is to give: the first check that matches, in the
\* order chart, table, picture, text frame, group.
KindOf(shape) ==
    CASE shape.shape_type = "CHART" -> "chart"
      [] shape.shape_type = "TABLE" -> "table"
      [] shape.shape_type = "PICTURE" -> "image"
      [] shape.has_text_frame -> "text"
      [] shape.shape_type = "GROUP" -> "group"
      [] OTHER -> "none"

Classified(shape) == KindOf(shape) # "none" /\ ~Unreadable(shape)

ClassifiedChild(shape) ==
    KindOf(shape) \notin {"none", "group"} /\ ~Unreadable(shape)

KindsOf(nodes) == [n \in DOMAIN nodes |-> nodes[n].d["kind"]]

ChildrenOf(node) ==
    IF HasKey(node, "children") THEN node.d["children"].l ELSE <<>>

\* C18: the nodes of a slide are those of its shapes that match a check (and
\* can be read), in shape order, each of the kind of the first check it
\* matches (chart, table, picture, text frame, group); a group gives one
\* group node whose children are its direct child shapes of a kind other than
\* group, in order; a shape matching no check gives no node.
C18_ShapesClassifiedInOrder ==
    pc = "analyze_done" =>
        \A i \in DOMAIN prs :
            LET shapes == SelectSeq(prs[i], Classified)
                nodes == IF i \in DOMAIN SlidesOf(analysis)
                             THEN ElementsOf(SlidesOf(analysis)[i]) ELSE <<>>
            IN  /\ Len(nodes) = Len(shapes)
                /\ \A n \in DOMAIN nodes :
                       /\ nodes[n].d["kind"] = StrOf(KindOf(shapes[n]))
                       /\ KindOf(shapes[n]) = "group" =>
                              LET children == SelectSeq(shapes[n].shapes,
                                                        ClassifiedChild)
                              IN  KindsOf(ChildrenOf(nodes[n]))
                                      = [c \in DOMAIN children |->
                                            StrOf(KindOf(children[c]))]

\* The analysis of a slide holding a group with a nested group and a picture,
\* followed by a shape that matches no check.
C18_Witness ==
    /\ pc = "analyze_done"
    /\ \E i \in DOMAIN prs :
          /\ Len(prs[i]) = 2
          /\ prs[i][1] = GroupShape(<<GroupShape(<<TitleHello>>), Picture("None")>>)
          /\ prs[i][2] = Connector
          /\ Len(ElementsOf(SlidesOf(analysis)[i])) = 1

\* The role the claim gives a text shape: by the placeholder type, then by
\* the font size of the first run of the first paragraph alone.
RoleByFirstRun(shape) ==
    IF shape.ph_type \in {"TITLE", "CENTER_TITLE"} THEN "title"
    ELSE IF shape.ph_type = "SUBTITLE" THEN "subtitle"
    ELSE IF shape.runs = <<>> THEN "body"
    ELSE IF shape.runs[1] >= 28 THEN "title"
    ELSE IF shape.runs[1] >= 20 THEN "heading"
    ELSE "body"

OneShape == Len(prs) = 1 /\ Len(prs[1]) = 1

\* C19: the role of a text shape is decided by its placeholder type (title or
\* center title: "title"; subtitle: "subtitle"), otherwise by the font size
\* of the first run of the first paragraph alone (at least 28pt: "title"; at
\* least 20pt: "heading"; else "body"), a failed lookup falling through; the
\* role is always one of the four.
C19_RoleByPlaceholderThenFirstRun ==
    (pc = "analyze_done" /\ OneShape /\ KindOf(prs[1][1]) = "text") =>
        LET role == ElementsOf(SlidesOf(analysis)[1])[1].d["role"]
        IN  /\ role \in {StrOf("title"), StrOf("subtitle"), StrOf("heading"),
                         StrOf("body")}
            /\ role = StrOf(RoleByFirstRun(prs[1][1]))

\* The points the claim gives a series: one for each of the first min(c, v)
\* positions, the category with the value, coerced when it can be; a value
\* that is None is left out by compaction.
PointOf(cat, val) ==
    DictOfItems({<<"category", cat>>}
                \cup (IF val.t = "None" THEN {} ELSE {<<"value", val>>}))

PointsOf(series) ==
    IF series.categories.t = "None" \/ series.values.t = "None" THEN <<>>
    ELSE [n \in 1..Min(Len(series.categories.l), Len(series.values.l)) |->
             PointOf(series.categories.l[n], series.values.l[n])]

PointsIn(node) ==
    IF HasKey(node, "points") THEN node.d["points"].l ELSE <<>>

\* C20: the series extracted from a chart series with c categories and v
\* values carries exactly min(c, v) points, the i-th pairing the i-th
\* category with the i-th value, a value that is no number kept as it is;
\* no point is dropped, whatever its value.
C20_SeriesPointsAligned ==
    (/\ pc = "analyze_done"
     /\ OneShape
     /\ KindOf(prs[1][1]) = "chart"
     /\ ~Unreadable(prs[1][1])
     /\ \A n \in DOMAIN prs[1][1].chart.series :
            ~prs[1][1].chart.series[n].failing) =>
        LET given == prs[1][1].chart.series
            node == ElementsOf(SlidesOf(analysis)[1])[1]
            series == IF HasKey(node, "series") THEN node.d["series"].l ELSE <<>>
        IN  /\ Len(series) = Len(given)
            /\ \A n \in DOMAIN series :
                   PointsIn(series[n]) = PointsOf(given[n])

-----------------------------------------------------------------------------
(* The workbook of a chart and the grid of a table *)

OneNode == ElementsOf(SlidesOf(analysis)[1])[1]

\* C21: the excel_data of a chart node is the grid of the active sheet of the
\* embedded workbook as it is (same rows, same cells, empty cells included);
\* a chart whose workbook cannot be read has no excel_data key.
C21_WorkbookRowsVerbatim ==
    (/\ pc = "analyze_done"
     /\ OneShape
     /\ KindOf(prs[1][1]) = "chart"
     /\ ~Unreadable(prs[1][1])) =>
        IF prs[1][1].chart.excel = PyNone
            THEN ~HasKey(OneNode, "excel_data")
            ELSE /\ HasKey(OneNode, "excel_data")
                 /\ OneNode.d["excel_data"] = prs[1][1].chart.excel

\* The entry the claim gives a cell: its row, its column, its text, and the
\* flags that are true.
CellEntry(r, c, cell) ==
    DictOfItems({<<"r", PyInt(r)>>, <<"c", PyInt(c)>>, <<"text", cell.text>>}
                \cup (IF cell.is_merge_origin
                          THEN {<<"merge_origin", PyBool(TRUE)>>} ELSE {})
                \cup (IF cell.is_spanned
                          THEN {<<"is_spanned", PyBool(TRUE)>>} ELSE {}))

\* C22: a table node carries the number of rows, the number of columns and,
\* for every cell of the grid (row 0, column 0 and empty texts included), an
\* entry with its row index, its column index and its text, with the merge
\* flags only when they are true.
C22_TableCellsCarryIndices ==
    (/\ pc = "analyze_done"
     /\ OneShape
     /\ KindOf(prs[1][1]) = "table"
     /\ prs[1][1].table.rows # <<>>) =>
        LET table == prs[1][1].table
            structure == OneNode.d["structure"]
        IN  /\ HasKey(structure, "rows")
            /\ structure.d["rows"] = PyInt(Len(table.rows))
            /\ HasKey(structure, "cols")
            /\ structure.d["cols"] = PyInt(table.columns)
            /\ HasKey(structure, "cells")
            /\ structure.d["cells"]
                   = PyList([r \in DOMAIN table.rows |->
                         PyList([c \in DOMAIN table.rows[r] |->
                             CellEntry(r - 1, c - 1, table.rows[r][c])])])

-----------------------------------------------------------------------------
(* The batch handler *)

PptxKeys == SelectSeq(file_keys.l, LAMBDA k : EndsWith(k, DotPptx))

Analysable(k) == store[k].state = "ok"

Failing(k) == ~Analysable(k)

\* C23: when fileKeys is non-empty and the store client exists, the handler
\* answers with status 200, processed holds the .pptx keys of the request
\* whose retrieval and analysis succeed, failed holds the other .pptx keys,
\* both in request order, whatever the analysed documents contain.
C23_BatchAnswers200 ==
    (pc = "handler_done" /\ Truthy(file_keys) /\ s3_client) =>
        /\ response.statusCode = 200
        /\ response.processed = SelectSeq(PptxKeys, Analysable)
        /\ response.failed = SelectSeq(PptxKeys, Failing)

-----------------------------------------------------------------------------
(* The element dispatcher *)

Recognised(el) ==
    \/ IsTextOf(el, {PyStr(StrHeading), PyStr(StrParagraph),
                     PyStr(StrBullets), PyStr(StrRich)})
    \/ Get(el, "type", PyNone) = PyStr(StrTable)
    \/ /\ Get(el, "type", PyNone) = PyStr(StrChart)
       /\ Get(el, "subtype", PyNone) \in {PyStr(StrGantt), PyStr(StrPie),
                                          PyStr(StrBar), PyStr(StrLine)}

\* A slide without a title, all of whose elements state a combination that
\* is not recognised.
OnlyUnrecognised(s) ==
    /\ s.t = "dict"
    /\ Get(s, "layout", PyNone) # PyStr(StrCover)
    /\ ~Truthy(Get(s, "title", PyNone))
    /\ Get(s, "elements", PyNone).t = "list"
    /\ Get(s, "elements", PyNone).l # <<>>
    /\ \A n \in DOMAIN s.d["elements"].l :
           /\ s.d["elements"].l[n].t = "dict"
           /\ HasKey(s.d["elements"].l[n], "type")
           /\ Get(s.d["elements"].l[n], "type", PyNone) = PyStr(StrText)
                 => HasKey(s.d["elements"].l[n], "variant")
           /\ ~Recognised(s.d["elements"].l[n])

\* C24: an element whose (type, variant/subtype) combination is not
\* recognised (an unknown type, a chart with an unknown or missing subtype, a
\* text element with a variant outside heading, paragraph, bullets, rich)
\* adds no shape to its slide and raises no error: the step that builds an
\* untitled slide holding only such elements adds a slide without any shape
\* and the build goes on.
C24_UnrecognisedAddNothing ==
    [][(/\ pc = "build_slides"
        /\ Len(deck) < Len(slides_spec.l)
        /\ OnlyUnrecognised(slides_spec.l[Len(deck) + 1]))
           => /\ deck' = Append(deck, <<>>)
              /\ pc' = "build_slides"]_vars

-----------------------------------------------------------------------------
(* Two calls on one input *)

\* A date given as a text that parse_time resolves by itself: an ISO day or
\* a quarter.
GivenDate(v) ==
    /\ v.t = "str"
    /\ IsIsoDate(strip(v.s)) \/ _Q_RE_match(strip(v.s))

\* The gantt chart states both ends of its range and every item of it that
\* has dates states them as given dates.
ClockFree(el) ==
    /\ Truthy(Get(el, "units", PyNone))
    /\ Truthy(Get(el.d["units"], "xRange", PyNone))
    /\ \A key \in {"t0", "t1"} :
           GivenDate(Get(el.d["units"].d["xRange"], key, PyNone))
    /\ \A n \in DOMAIN gantt_items(el) :
           LET it == gantt_items(el)[n]
           IN  HasBothDates(it) =>
                   GivenDate(it.d["start"].d["x"]) /\ GivenDate(it.d["end"].d["x"])

-----------------------------------------------------------------------------
(* The space reserved for the legend *)

Requested == inches_rect(legend_args.position)

LegendPad == Inches(legend_args.pad_in)

NarrowerByPad == frame.w = Requested.w - LegendPad

LowerByPad == frame.h = Requested.h - LegendPad

\* C27: for every legend placement among right, left, top, bottom and corner
\* and every positive padding, the frame is smaller than the requested
\* position by the padding in the dimension the legend occupies: the width
\* for right and left, the height for top and bottom, the left or top edge
\* moved by the padding as well for left and top, and one of the two
\* dimensions for corner.
C27_LegendPadReserved ==
    (pc = "frame_done" /\ legend_args.pad_in > 0) =>
        CASE legend_args.legend_pos = "right" ->
                NarrowerByPad /\ frame.x = Requested.x
          [] legend_args.legend_pos = "left" ->
                NarrowerByPad /\ frame.x = Requested.x + LegendPad
          [] legend_args.legend_pos = "top" ->
                LowerByPad /\ frame.y = Requested.y + LegendPad
          [] legend_args.legend_pos = "bottom" ->
                LowerByPad /\ frame.y = Requested.y
          [] legend_args.legend_pos = "corner" ->
                NarrowerByPad \/ LowerByPad
          [] OTHER -> TRUE

-----------------------------------------------------------------------------
(* The slides of the deck *)

IsCover(s) == Get(s, "layout", PyNone) = PyStr(StrCover)

ListedOn(s) == OrElse(Get(s, "elements", PyNone), EmptyList).l

HasHeading(s) ==
    \E n \in DOMAIN ListedOn(s) : IsTextOf(ListedOn(s)[n], {PyStr(StrHeading)})

TitleDue(s) == Truthy(Get(s, "title", PyNone)) /\ ~HasHeading(s)

\* What the dispatcher adds for the elements of the slide, one call per
\* element, in list order.
Dispatched(s) ==
    shapes_until([n \in DOMAIN ListedOn(s) |-> render_element(ListedOn(s)[n])],
                 Len(ListedOn(s)))

CoverKinds == {"band", "cover_title", "cover_subtitle", "cover_footer"}

\* C26: a build that ends has added exactly one slide per resolved slide
\* spec.  A slide that is no cover holds the default title text box, as its
\* first shape, if and only if the slide has a non-empty title and none of
\* its elements is a heading, followed by what the dispatcher adds for each
\* element, once each and in list order.  A cover slide holds the shapes of
\* the cover only.
C26_TitleThenElementsInOrder ==
    pc = "build_done" =>
        /\ Len(deck) = Len(slides_spec.l)
        /\ \A k \in DOMAIN deck :
               LET s == slides_spec.l[k]
               IN  IF IsCover(s)
                       THEN \A n \in DOMAIN deck[k] : deck[k][n].kind \in CoverKinds
                       ELSE deck[k] = (IF TitleDue(s) THEN <<Shape("title")>>
                                       ELSE <<>>) \o Dispatched(s)

C26_Witness ==
    /\ pc = "build_done"
    /\ Len(deck) = 3
    /\ IsCover(slides_spec.l[1])
    /\ ~IsCover(slides_spec.l[2])
    /\ TitleDue(slides_spec.l[2])
    /\ deck[2] = <<Shape("title"), Shape("textbox")>>

-----------------------------------------------------------------------------
(* The content area and the lanes of the gantt chart *)

FrameOf(el) ==
    inches_rect(IF HasKey(el, "position") THEN el.d["position"]
                ELSE DefaultPosition)

GutterOf(el) == Inches(Get(el, "gutterInches", PyInt(100)).i)

LanesGiven(el) ==
    IF /\ HasKey(el, "units")
       /\ HasKey(el.d["units"], "yRange")
       /\ HasKey(el.d["units"].d["yRange"], "lanes")
    THEN Len(el.d["units"].d["yRange"].d["lanes"].l)
    ELSE 0

FrameDrawn == pc \in {"gantt_items", "gantt_done"}

\* C28: the content area starts at the frame x plus the gutter; its width is
\* the frame width minus the gutter, or 1 inch when that difference is
\* smaller, hence at least 1 inch for every frame width and gutter; the
\* frame height is divided by the number of lanes, or by 1 when no lane is
\* declared, hence never by zero.
C28_ContentAreaAndLanes ==
    FrameDrawn =>
        LET lay == gantt_layout(element)
            rest == FrameOf(element).w - GutterOf(element)
        IN  /\ lay.content_x = FrameOf(element).x + GutterOf(element)
            /\ rest >= Inches(100) => lay.content_w = rest
            /\ rest < Inches(100) => lay.content_w = Inches(100)
            /\ lay.content_w >= Inches(100)
            /\ Inches(100) > 0
            /\ lay.lane_count = (IF LanesGiven(element) = 0 THEN 1
                                 ELSE LanesGiven(element))
            /\ lay.lane_count >= 1

C28_Witness ==
    /\ pc = "gantt_done"
    /\ FrameOf(element).w < GutterOf(element)
    /\ gantt_layout(element).content_w = Inches(100)
    /\ LanesGiven(element) = 3
    /\ Chevrons # <<>>

-----------------------------------------------------------------------------
(* The bars inside the content area *)

RangeEnd(el) == parse_time(el.d["units"].d["xRange"].d["t1"])

RangeStated(el) ==
    /\ HasKey(el, "units")
    /\ HasKey(el.d["units"], "xRange")
    /\ DOMAIN el.d["units"].d["xRange"].d = {"t0", "t1"}
    /\ After(RangeEnd(el), gantt_layout(el).t0)

Within(date, el) ==
    ~After(gantt_layout(el).t0, date) /\ ~After(date, RangeEnd(el))

LaneOf(it) == Get(it.d["start"], "y", PyInt(0)).i

FractionOf(it) == Get(Get(it, "size", EmptyDict), "height", PyInt(60)).i

\* The item of a bar is one the claim speaks about, but for its height.
InRange(el, it) ==
    /\ RangeStated(el)
    /\ Within(StartDate(it), el) /\ Within(EndDate(it), el)
    /\ LaneOf(it) \in 0..(LanesGiven(el) - 1)

\* The top and the height of a lane, on the scale of the bars (200 times the
\* number of lanes).
LaneTop(el, lane) ==
    200 * gantt_layout(el).lane_count * FrameOf(el).y + 200 * FrameOf(el).h * lane

LaneHeight(el) == 200 * FrameOf(el).h

\* The bar lies inside the content rectangle and inside its lane, centred.
Inside(el, it, bar) ==
    LET lay == gantt_layout(el)
        row == LaneTop(el, LaneOf(it))
    IN  /\ lay.content_x * lay.total_days <= bar.left
        /\ bar.left + bar.width <= (lay.content_x + lay.content_w) * lay.total_days
        /\ row <= bar.top /\ bar.top <= row + LaneHeight(el)
        /\ row <= bar.top + bar.height
        /\ bar.top + bar.height <= row + LaneHeight(el)
        /\ bar.top - row = (row + LaneHeight(el)) - (bar.top + bar.height)

\* C30 as stated: over a range with t0 before t1, the bar of an item whose
\* dates lie within the range, whose lane is a declared one and whose height
\* fraction is at most 1 lies inside the content rectangle and inside its
\* lane, vertically centred.
C30_BarInsideItsLane ==
    \A c \in DOMAIN Chevrons :
        LET it == gantt_items(element)[Chevrons[c].item]
        IN  (InRange(element, it) /\ FractionOf(it) <= 100)
                => Inside(element, it, Chevrons[c])

\* C30, amended: the same for a height fraction between 0 and 1.
C30_BarInsideItsLaneForFractions ==
    \A c \in DOMAIN Chevrons :
        LET it == gantt_items(element)[Chevrons[c].item]
        IN  (InRange(element, it) /\ FractionOf(it) \in 0..100)
                => Inside(element, it, Chevrons[c])

C30_Witness ==
    /\ pc = "gantt_done"
    /\ \E c \in DOMAIN Chevrons :
           LET it == gantt_items(element)[Chevrons[c].item]
           IN  /\ InRange(element, it)
               /\ FractionOf(it) \in 0..100
               /\ Chevrons[c].width > 0
               /\ Inside(element, it, Chevrons[c])

-----------------------------------------------------------------------------
(* An error while one shape is extracted *)

CanBeRead(shape) == ~Unreadable(shape)

\* The shape without the children that cannot be read.
Repaired(shape) ==
    IF shape.shape_type = "GROUP"
        THEN [shape EXCEPT !.shapes = SelectSeq(shape.shapes, CanBeRead)]
    ELSE shape

\* The document without the shapes that cannot be read.
WithoutUnreadable(doc) ==
    [i \in DOMAIN doc |->
        LET kept == SelectSeq(doc[i], CanBeRead)
        IN  [n \in DOMAIN kept |-> Repaired(kept[n])]]

\* C29: a shape, or a child of a group, whose extraction raises gives no
\* node and nothing else is lost: the analysis returned is the analysis of
\* the document without these shapes, so every other shape of the slide and
\* every other slide is extracted, in order, and a result is returned.
C29_ErrorRemovesOneShapeOnly ==
    pc = "analyze_done" =>
        /\ ~IsRaise(analysis)
        /\ analysis = _analyze_presentation_stream(WithoutUnreadable(prs))

C29_Witness ==
    /\ pc = "analyze_done"
    /\ Len(prs) = 2
    /\ Len(prs[1]) = 3
    /\ Unreadable(prs[1][2])
    /\ prs[1][1].shape_type = "GROUP"
    /\ \E c \in DOMAIN prs[1][1].shapes : Unreadable(prs[1][1].shapes[c])
    /\ Len(ElementsOf(SlidesOf(analysis)[1])) = 2
    /\ Len(ChildrenOf(ElementsOf(SlidesOf(analysis)[1])[1])) = 2
    /\ Len(ElementsOf(SlidesOf(analysis)[2])) = 1


=============================================================================
